---- MODULE Spec2Model ----
(***************************************************************************)
(* Model of the update service of DadaTV (src/services/updateService.ts):  *)
(* checkVersion, cleanOldApkFiles, downloadApk and installApk, each as a   *)
(* state machine whose steps are the awaits of the async method.           *)
(***************************************************************************)
EXTENDS Integers, Sequences, FiniteSets, TLC

VARIABLES
    \* ---- checkVersion ----
    cvPc,         \* position of the checkVersion call
    cvRetries,    \* local `retries`
    cvTimer,      \* the 10 s abort timer of the current attempt is armed
    cvStale,      \* timers of failed attempts that were never cleared
    cvResponse,   \* the response the current attempt received (or NoValue)
    cvError,      \* the value caught by the catch block (or NoValue)
    cvOutcomes,   \* history: what the endpoint did at every attempt so far
    cvWaits,      \* history: the back-off delays (ms) waited so far
    cvResult,     \* what the call returned or threw (or NoValue)
    \* ---- downloadApk and cleanOldApkFiles, one entry per call site ----
    files,        \* names of the files in dirs.DocumentDir
    now,          \* the clock (ms) when it was last read or a timer last fired
    calls,        \* downloadApk calls started so far
    dlPc,         \* position of the call
    dlRetries,    \* local `retries`
    dlToDelete,   \* the part of filesToDelete the for loop has not reached yet
    dlFile,       \* fileName of the current attempt
    dlError,      \* the value caught by the catch block
    dlResult,     \* what the call returned or threw
    dlBefore,     \* history: the directory when the call started
    dlPlan,       \* history: filesToDelete as the cleanup computed it
    dlCleanLog,   \* history: ls and unlink outcomes of the cleanup pass
    dlAttempts,   \* history: transfers started by this call
    dlArmed,      \* the clock when the call armed its back-off timer
    dlWaits,      \* history: the back-off delays (ms) waited so far
    dlToasts,     \* history: notifications shown by this call
    cleanFailed,  \* history: some ls or unlink of some cleanup pass has failed
    \* ---- installApk ----
    inPc,           \* position of the installApk call
    inPath,         \* the argument filePath
    inError,        \* the value caught by the catch block
    inResult,       \* what the call returned or threw
    installerCalls, \* the paths InstallApk.install was called with
    installation,   \* the state of the installation handed to the OS
    inExists,       \* history: what the existence query answered
    inPerm,         \* history: what the permission query answered
    inLog,          \* history: the platform calls made by this call, in order
    inToasts,       \* history: notifications shown by this call
    \* ---- compareVersions and isUpdateAvailable ----
    vRemote,        \* a version string received from the manifest (or NoValue)
    currentVersion, \* the `version` of package.json the build was made from
    remoteParts,    \* history: the numbers vRemote was written from
    currentParts,   \* history: the numbers currentVersion was written from
    vcCall,         \* the last call of a version function and what it returned
    \* ---- LoginModal ----
    isLoginModalVisible, \* authStore: the modal is shown
    storageType,    \* serverConfig?.StorageType ("undefined" without a config)
    username,       \* state of the username input
    password,       \* state of the password input
    isLoading,      \* state: a login is being processed
    savedCredentials, \* what LoginCredentialsManager holds (or NoValue)
    lgStarted,      \* handleLogin runs started so far
    lgPc,           \* position of every handleLogin run
    lgArgs,         \* the arguments every run passed to api.login
    lgLog,          \* history: what every run did, in order
    isSettingsPage, \* pathname.includes("settings")
    lgLoad,         \* position of loadCredentials
    \* ---- useApiConfig ----
    apiBaseUrl,     \* settingsStore: the API base URL
    serverConfig,   \* settingsStore: the loaded server configuration ("null" without one)
    isLoadingServerConfig, \* settingsStore: the server configuration is being loaded
    acMounted,      \* the hook has been rendered and its effects have run
    validationState, \* state: isValidating, isValid, error
    validations,    \* history: every validateConfig run started, in order
    acLastWrite,    \* history: the run whose result was last written to the state (0: none since)
    \* ---- shared ----
    toasts        \* every Toast.show so far, in order

cvVars == <<cvPc, cvRetries, cvTimer, cvStale, cvResponse, cvError,
            cvOutcomes, cvWaits, cvResult>>

dlVars == <<files, now, calls, dlPc, dlRetries, dlToDelete, dlFile, dlError, dlResult,
            dlBefore, dlPlan, dlCleanLog, dlAttempts, dlArmed, dlWaits, dlToasts, cleanFailed>>

inVars == <<inPc, inPath, inError, inResult, installerCalls, installation,
            inExists, inPerm, inLog, inToasts>>

vcVars == <<vRemote, currentVersion, remoteParts, currentParts, vcCall>>

\* The state of the functions and components other than the three calls above.
lgVars == <<isLoginModalVisible, storageType, username, password, isLoading,
            savedCredentials, lgStarted, lgPc, lgArgs, lgLog, isSettingsPage, lgLoad>>

acVars == <<apiBaseUrl, serverConfig, isLoadingServerConfig, acMounted,
            validationState, validations, acLastWrite>>

extVars == <<vcVars, lgVars, acVars>>

vars == <<cvVars, dlVars, inVars, extVars, toasts>>

NoValue == [kind |-> "none"]

(***************************************************************************)
(* Program constants.                                                      *)
(***************************************************************************)
maxRetries == 3
CheckBackoffMs == 2000
DownloadBackoffMs == 3000
KeepNewest == 2

(***************************************************************************)
(* Bounds of the model.                                                    *)
(***************************************************************************)
MaxCalls == 3
MaxSerial == 2
NumOld == 5
MaxParts == 3
MaxLogins == 2
MaxValidations == 3

(***************************************************************************)
(* The manifest endpoint.  A response is a status and a body; the body     *)
(* either fails to parse, parses to null, parses to an object without a    *)
(* version field, or parses to an object with a version.                   *)
(***************************************************************************)
Versions == {"1.0.1", "1.2.0"}

Bodies == {[kind |-> "malformed"], [kind |-> "null"], [kind |-> "noVersion"]}
            \cup {[kind |-> "manifest", version |-> v] : v \in Versions}

Responses == {[kind |-> "response", ok |-> TRUE, status |-> 200, body |-> b] : b \in Bodies}
               \cup {[kind |-> "response", ok |-> FALSE, status |-> s, body |-> [kind |-> "malformed"]]
                       : s \in {404, 500}}

\* UPDATE_CONFIG.getDownloadUrl(version)
getDownloadUrl(version) == [kind |-> "downloadUrl", version |-> version]

HttpMessage(status) ==
    IF status = 404 THEN "HTTP 404: Failed to fetch version info"
                    ELSE "HTTP 500: Failed to fetch version info"

\* An Error object thrown at attempt n.
Err(type, msg, n) == [kind |-> "error", isError |-> TRUE, type |-> type, message |-> msg, attempt |-> n]

CheckToast == [type |-> "error", text1 |-> "check update failed", text2 |-> "check network"]

(***************************************************************************)
(* checkVersion                                                            *)
(***************************************************************************)
Callers == {1, 2}

\* File names: OrionTV_v<n>.apk with n all digits; a name that starts with
\* OrionTV_v and ends with .apk but has other characters in between, either
\* without OrionTV_v<digits>.apk anywhere in it (the model has two such names,
\* standing for names like OrionTV_v1.2.0.apk and OrionTV_vbeta.apk) or with
\* it (OrionTV_v<n>.apk.apk); and a name that is neither.
ApkName(n) == [kind |-> "ts", n |-> n]
LegacyName == [kind |-> "legacy", n |-> 0]
BetaName == [kind |-> "legacy", n |-> 1]
StampedName(n) == [kind |-> "stamped", n |-> n]
OtherName == [kind |-> "other", n |-> 0]

\* No call is running.
DlIdle ==
    /\ calls = 0
    /\ dlPc = [c \in Callers |-> "idle"]
    /\ dlRetries = [c \in Callers |-> 0]
    /\ dlToDelete = [c \in Callers |-> <<>>]
    /\ dlFile = [c \in Callers |-> NoValue]
    /\ dlError = [c \in Callers |-> NoValue]
    /\ dlResult = [c \in Callers |-> NoValue]
    /\ dlBefore = [c \in Callers |-> {}]
    /\ dlPlan = [c \in Callers |-> <<>>]
    /\ dlCleanLog = [c \in Callers |-> <<>>]
    /\ dlAttempts = [c \in Callers |-> 0]
    /\ dlArmed = [c \in Callers |-> 0]
    /\ dlWaits = [c \in Callers |-> <<>>]
    /\ dlToasts = [c \in Callers |-> 0]
    /\ cleanFailed = FALSE

CvInit ==
    /\ cvPc = "idle"
    /\ cvRetries = 0
    /\ cvTimer = FALSE
    /\ cvStale = 0
    /\ cvResponse = NoValue
    /\ cvError = NoValue
    /\ cvOutcomes = <<>>
    /\ cvWaits = <<>>
    /\ cvResult = NoValue

\* No installApk call is running.
InIdle ==
    /\ inPc = "idle"
    /\ inPath = NoValue
    /\ inError = NoValue
    /\ inResult = NoValue
    /\ installerCalls = <<>>
    /\ installation = "none"
    /\ inExists = "none"
    /\ inPerm = "none"
    /\ inLog = <<>>
    /\ inToasts = 0

\* Decimal digits as characters; a string that is taken apart by the code
\* is a sequence of characters.
Digit == <<"0", "1", "2", "3", "4", "5", "6", "7", "8", "9">>

RECURSIVE Decimal(_)
\* The decimal notation of a natural number.
Decimal(n) ==
    IF n < 10 THEN <<Digit[n + 1]>>
    ELSE Decimal(n \div 10) \o <<Digit[(n % 10) + 1]>>

RECURSIVE FormatVersion(_)
\* The version string of a non-empty sequence of numbers: "1.10.0".
FormatVersion(parts) ==
    IF Len(parts) = 1 THEN Decimal(parts[1])
    ELSE FormatVersion(SubSeq(parts, 1, Len(parts) - 1))
            \o <<".">> \o Decimal(parts[Len(parts)])

\* The version of the installed build in the states where the version
\* functions are not under study (package.json is not part of the sources).
InstalledParts == <<1, 9>>

\* No version function has been called and no manifest has been received.
VcIdle ==
    /\ vRemote = NoValue
    /\ remoteParts = <<>>
    /\ currentVersion = FormatVersion(InstalledParts)
    /\ currentParts = InstalledParts
    /\ vcCall = NoValue

\* The handleLogin runs the model follows.
LoginRuns == 1..MaxLogins

\* No handleLogin run has started and nothing has been typed.
LgFresh ==
    /\ username = ""
    /\ password = ""
    /\ isLoading = FALSE
    /\ lgStarted = 0
    /\ lgPc = [r \in LoginRuns |-> "idle"]
    /\ lgArgs = [r \in LoginRuns |-> NoValue]
    /\ lgLog = [r \in LoginRuns |-> <<>>]

\* The modal has not been opened: nothing is stored and loadCredentials has
\* not been called.
LgIdle ==
    /\ LgFresh
    /\ savedCredentials = NoValue
    /\ isSettingsPage = FALSE
    /\ lgLoad = "idle"

\* useApiConfig is not rendered: the state holds the argument of useState, and
\* the store holds no base URL and no server configuration.
AcIdle ==
    /\ apiBaseUrl = <<>>
    /\ serverConfig = "null"
    /\ isLoadingServerConfig = FALSE
    /\ acMounted = FALSE
    /\ validationState = [isValidating |-> FALSE, isValid |-> "null", error |-> "null"]
    /\ validations = <<>>
    /\ acLastWrite = 0

\* The login modal is closed and no server configuration is loaded.
ExtIdle ==
    /\ VcIdle
    /\ LgIdle
    /\ AcIdle
    /\ isLoginModalVisible = FALSE
    /\ storageType = "undefined"

\* The service after a fresh install: the document directory is empty.
Init ==
    /\ CvInit
    /\ DlIdle
    /\ InIdle
    /\ ExtIdle
    /\ files = {}
    /\ now = 1
    /\ toasts = <<>>

\* The service on a device whose document directory holds a file that is no
\* APK, APK files of earlier downloads, and possibly APKs with names of other
\* shapes.  The two names without a timestamp are interchangeable: the second
\* is there only together with the first.
InitWithFiles ==
    /\ CvInit
    /\ DlIdle
    /\ InIdle
    /\ ExtIdle
    /\ \E old \in SUBSET (1..NumOld), others \in SUBSET {LegacyName, BetaName, StampedName(NumOld - 1)} :
          /\ BetaName \in others => LegacyName \in others
          /\ files = {ApkName(t) : t \in old} \cup others \cup {OtherName}
    /\ now = NumOld + 1
    /\ toasts = <<>>

\* The call enters the method: retries = 0.
CheckVersionCall ==
    /\ cvPc = "idle"
    /\ cvRetries' = 0
    /\ cvPc' = "loop"
    /\ UNCHANGED <<cvTimer, cvStale, cvResponse, cvError, cvOutcomes, cvWaits, cvResult, toasts, dlVars, inVars, extVars>>

\* while (retries < maxRetries): arm the timer and start fetch.
CvLoopEnter ==
    /\ cvPc = "loop"
    /\ cvRetries < maxRetries
    /\ cvTimer' = TRUE
    /\ cvPc' = "fetch"
    /\ UNCHANGED <<cvRetries, cvStale, cvResponse, cvError, cvOutcomes, cvWaits, cvResult, toasts, dlVars, inVars, extVars>>

\* The loop ends without returning: throw "Maximum retry attempts exceeded".
CvLoopExit ==
    /\ cvPc = "loop"
    /\ ~(cvRetries < maxRetries)
    /\ cvResult' = [kind |-> "thrown", error |-> Err("max", "Maximum retry attempts exceeded", 0)]
    /\ cvPc' = "thrown"
    /\ UNCHANGED <<cvRetries, cvTimer, cvStale, cvResponse, cvError, cvOutcomes, cvWaits, toasts, dlVars, inVars, extVars>>

\* fetch resolves with a response; clearTimeout(timeoutId).
CvFetchResolves ==
    /\ cvPc = "fetch"
    /\ \E r \in Responses :
          /\ cvResponse' = r
          /\ cvOutcomes' = Append(cvOutcomes, r)
    /\ cvTimer' = FALSE
    /\ cvPc' = "response"
    /\ UNCHANGED <<cvRetries, cvStale, cvError, cvWaits, cvResult, toasts, dlVars, inVars, extVars>>

\* fetch rejects with a network error; the timer is left armed.
CvFetchRejects ==
    /\ cvPc = "fetch"
    /\ cvError' = Err("network", "Network request failed", Len(cvOutcomes) + 1)
    /\ cvOutcomes' = Append(cvOutcomes, [kind |-> "rejected", type |-> "network"])
    /\ cvTimer' = FALSE
    /\ cvStale' = cvStale + 1
    /\ cvPc' = "catch"
    /\ UNCHANGED <<cvRetries, cvResponse, cvWaits, cvResult, toasts, dlVars, inVars, extVars>>

\* The 10 s timer fires while fetch is pending: controller.abort() rejects it.
CvTimeout ==
    /\ cvPc = "fetch"
    /\ cvTimer
    /\ cvError' = Err("abort", "Aborted", Len(cvOutcomes) + 1)
    /\ cvOutcomes' = Append(cvOutcomes, [kind |-> "rejected", type |-> "abort"])
    /\ cvTimer' = FALSE
    /\ cvPc' = "catch"
    /\ UNCHANGED <<cvRetries, cvStale, cvResponse, cvWaits, cvResult, toasts, dlVars, inVars, extVars>>

\* A timer left over from a rejected fetch fires: it aborts a finished request.
CvStaleTimeout ==
    /\ cvStale > 0
    /\ cvStale' = cvStale - 1
    /\ UNCHANGED <<cvPc, cvRetries, cvTimer, cvResponse, cvError, cvOutcomes, cvWaits, cvResult, toasts, dlVars, inVars, extVars>>

\* What lines 42-52 do with a response: the value returned, or the value thrown.
CvHandle(r, n) ==
    IF ~r.ok
        THEN [kind |-> "thrown", error |-> Err("http", HttpMessage(r.status), n)]
    ELSE IF r.body.kind = "malformed"
        THEN [kind |-> "thrown", error |-> Err("parse", "JSON Parse error", n)]
    ELSE IF r.body.kind = "null"
        THEN [kind |-> "thrown", error |-> Err("type", "Cannot read property of null", n)]
    ELSE LET remoteVersion == IF r.body.kind = "manifest" THEN r.body.version ELSE "undefined"
         IN [kind |-> "returned",
             value |-> [version |-> remoteVersion, downloadUrl |-> getDownloadUrl(remoteVersion)]]

\* if (!response.ok) throw ...; await response.json(); return {...}
CvResponseStep ==
    /\ cvPc = "response"
    /\ LET h == CvHandle(cvResponse, Len(cvOutcomes))
       IN IF h.kind = "returned"
            THEN /\ cvResult' = h
                 /\ cvPc' = "returned"
                 /\ UNCHANGED cvError
            ELSE /\ cvError' = h.error
                 /\ cvPc' = "catch"
                 /\ UNCHANGED cvResult
    /\ cvResponse' = NoValue
    /\ UNCHANGED <<cvRetries, cvTimer, cvStale, cvOutcomes, cvWaits, toasts, dlVars, inVars, extVars>>

\* A catch block that forgets the notification on the last failure.
CvCatchNoToast ==
    /\ cvPc = "catch"
    /\ cvRetries' = cvRetries + 1
    /\ cvPc' = IF cvRetries + 1 = maxRetries THEN "rethrow" ELSE "backoff"
    /\ UNCHANGED <<cvTimer, cvStale, cvResponse, cvError, cvOutcomes, cvWaits, cvResult, toasts, dlVars, inVars, extVars>>

\* catch (error) { retries++; if (retries === maxRetries) { Toast.show(...)
CvCatch ==
    /\ cvPc = "catch"
    /\ cvRetries' = cvRetries + 1
    /\ IF cvRetries + 1 = maxRetries
         THEN /\ toasts' = Append(toasts, CheckToast)
              /\ cvPc' = "rethrow"
         ELSE /\ cvPc' = "backoff"
              /\ UNCHANGED toasts
    /\ UNCHANGED <<cvTimer, cvStale, cvResponse, cvError, cvOutcomes, cvWaits, cvResult, dlVars, inVars, extVars>>

\* throw error;
CvRethrow ==
    /\ cvPc = "rethrow"
    /\ cvResult' = [kind |-> "thrown", error |-> cvError]
    /\ cvPc' = "thrown"
    /\ UNCHANGED <<cvRetries, cvTimer, cvStale, cvResponse, cvError, cvOutcomes, cvWaits, toasts, dlVars, inVars, extVars>>

\* A back-off that waits the base delay every time.
CvBackoffFlat ==
    /\ cvPc = "backoff"
    /\ cvWaits' = Append(cvWaits, CheckBackoffMs)
    /\ cvError' = NoValue
    /\ cvPc' = "loop"
    /\ UNCHANGED <<cvRetries, cvTimer, cvStale, cvResponse, cvOutcomes, cvResult, toasts, dlVars, inVars, extVars>>

\* await new Promise(resolve => setTimeout(resolve, 2000 * retries));
CvBackoff ==
    /\ cvPc = "backoff"
    /\ cvWaits' = Append(cvWaits, CheckBackoffMs * cvRetries)
    /\ cvError' = NoValue
    /\ cvPc' = "loop"
    /\ UNCHANGED <<cvRetries, cvTimer, cvStale, cvResponse, cvOutcomes, cvResult, toasts, dlVars, inVars, extVars>>

CvNext ==
    \/ CheckVersionCall
    \/ CvLoopEnter
    \/ CvFetchResolves
    \/ CvFetchRejects
    \/ CvTimeout
    \/ CvStaleTimeout
    \/ CvResponseStep
    \/ CvCatch
    \/ CvRethrow
    \/ CvBackoff

SpecCheck == Init /\ [][CvNext]_vars

\* A filter that accepts only the names OrionTV_v<digits>.apk.
IsApkFileDigitsOnly(f) == f.kind = "ts"

(***************************************************************************)
(* cleanOldApkFiles                                                        *)
(***************************************************************************)
\* file.startsWith('OrionTV_v') && file.endsWith('.apk')
IsApkFile(f) == f.kind \in {"ts", "legacy", "stamped"}

\* parseInt(a.match(/OrionTV_v(\d+)\.apk/)?.[1] || '0'): the pattern is not
\* anchored, it matches anywhere in the name.
ExtractTime(f) == IF f.kind \in {"ts", "stamped"} THEN f.n ELSE 0

\* The orders in which ls may report the files of a directory.  The cleanup
\* depends on the order only through the relative order of APK files of equal
\* time (it filters, then sorts stably), so one listing stands for all the
\* listings that agree on that: files of different rank are listed by rank,
\* files of equal rank in every possible order.
LsRank(f) == IF IsApkFile(f) THEN ExtractTime(f) ELSE -1

RECURSIVE Listings(_)
Listings(S) ==
    IF S = {} THEN {<<>>}
    ELSE LET first == {f \in S : \A g \in S : LsRank(f) <= LsRank(g)}
         IN UNION {{<<f>> \o rest : rest \in Listings(S \ {f})} : f \in first}

\* Array.prototype.filter
RECURSIVE Filter(_)
Filter(list) ==
    IF list = <<>> THEN <<>>
    ELSE IF IsApkFile(Head(list)) THEN <<Head(list)>> \o Filter(Tail(list))
    ELSE Filter(Tail(list))

\* Array.prototype.sort with (a, b) => time(b) - time(a): descending by time,
\* files of equal time keep the order they had (the sort is stable).
RECURSIVE InsertSorted(_, _)
InsertSorted(sorted, f) ==
    IF sorted = <<>> THEN <<f>>
    ELSE IF ExtractTime(Head(sorted)) >= ExtractTime(f)
        THEN <<Head(sorted)>> \o InsertSorted(Tail(sorted), f)
    ELSE <<f>> \o sorted

\* A sort whose comparator is the wrong way round: time(a) - time(b).
Reverse(list) == [i \in 1..Len(list) |-> list[Len(list) + 1 - i]]

RECURSIVE SortFilesOldestFirst(_)
SortFilesOldestFirst(list) ==
    IF list = <<>> THEN <<>>
    ELSE Reverse(InsertSorted(Reverse(SortFilesOldestFirst(SubSeq(list, 1, Len(list) - 1))),
                              list[Len(list)]))

RECURSIVE SortFiles(_)
SortFiles(list) ==
    IF list = <<>> THEN <<>>
    ELSE InsertSorted(SortFiles(SubSeq(list, 1, Len(list) - 1)), list[Len(list)])

\* A cleanup that keeps one file too many.
FilesToDeleteKeepThree(listing) ==
    LET apkFiles == Filter(listing)
    IN IF Len(apkFiles) > KeepNewest + 1
         THEN SubSeq(SortFiles(apkFiles), KeepNewest + 2, Len(apkFiles))
         ELSE <<>>

\* Lines 78-90: filesToDelete for a directory listing.
FilesToDelete(listing) ==
    LET apkFiles == Filter(listing)
    IN IF Len(apkFiles) > KeepNewest
         THEN SubSeq(SortFiles(apkFiles), KeepNewest + 1, Len(apkFiles))
         ELSE <<>>

\* downloadApk is entered: retries = 0, then await this.cleanOldApkFiles(),
\* which awaits ls.
DownloadApkCall(c) ==
    /\ dlPc[c] \in {"idle", "returned", "thrown"}
    /\ calls < MaxCalls
    /\ calls' = calls + 1
    /\ dlPc' = [dlPc EXCEPT ![c] = "ls"]
    /\ dlRetries' = [dlRetries EXCEPT ![c] = 0]
    /\ dlToDelete' = [dlToDelete EXCEPT ![c] = <<>>]
    /\ dlFile' = [dlFile EXCEPT ![c] = NoValue]
    /\ dlError' = [dlError EXCEPT ![c] = NoValue]
    /\ dlResult' = [dlResult EXCEPT ![c] = NoValue]
    /\ dlBefore' = [dlBefore EXCEPT ![c] = files]
    /\ dlPlan' = [dlPlan EXCEPT ![c] = <<>>]
    /\ dlCleanLog' = [dlCleanLog EXCEPT ![c] = <<>>]
    /\ dlAttempts' = [dlAttempts EXCEPT ![c] = 0]
    /\ dlWaits' = [dlWaits EXCEPT ![c] = <<>>]
    /\ dlToasts' = [dlToasts EXCEPT ![c] = 0]
    /\ UNCHANGED <<dlArmed, files, now, cleanFailed, toasts, cvVars, inVars, extVars>>

\* ls resolves: filter, sort and slice, then enter the for loop (or return).
CleanLsResolves(c) ==
    /\ dlPc[c] = "ls"
    /\ \E listing \in Listings(files) :
         LET filesToDelete == FilesToDelete(listing)
         IN /\ dlToDelete' = [dlToDelete EXCEPT ![c] = filesToDelete]
            /\ dlPlan' = [dlPlan EXCEPT ![c] = filesToDelete]
            /\ dlPc' = [dlPc EXCEPT ![c] = IF filesToDelete = <<>> THEN "loop" ELSE "unlink"]
    /\ dlCleanLog' = [dlCleanLog EXCEPT ![c] = Append(@, [op |-> "ls", ok |-> TRUE, file |-> NoValue])]
    /\ UNCHANGED <<dlArmed, files, now, calls, dlRetries, dlFile, dlError, dlResult, dlBefore,
                   dlAttempts, dlWaits, dlToasts, cleanFailed, toasts, cvVars, inVars, extVars>>

\* ls rejects: the outer catch logs a warning and cleanOldApkFiles returns.
CleanLsRejects(c) ==
    /\ dlPc[c] = "ls"
    /\ dlCleanLog' = [dlCleanLog EXCEPT ![c] = Append(@, [op |-> "ls", ok |-> FALSE, file |-> NoValue])]
    /\ cleanFailed' = TRUE
    /\ dlPc' = [dlPc EXCEPT ![c] = "loop"]
    /\ UNCHANGED <<dlArmed, files, now, calls, dlRetries, dlToDelete, dlFile, dlError, dlResult, dlBefore,
                   dlPlan, dlAttempts, dlWaits, dlToasts, toasts, cvVars, inVars, extVars>>

\* A for loop inside one try block: the first failing unlink ends the cleanup.
CleanUnlinkAbort(c) ==
    /\ dlPc[c] = "unlink"
    /\ LET file == Head(dlToDelete[c])
       IN \E ok \in BOOLEAN :
            /\ files' = IF ok THEN files \ {file} ELSE files
            /\ cleanFailed' = (cleanFailed \/ ~ok)
            /\ dlCleanLog' = [dlCleanLog EXCEPT ![c] = Append(@, [op |-> "unlink", ok |-> ok, file |-> file])]
            /\ dlToDelete' = [dlToDelete EXCEPT ![c] = IF ok THEN Tail(@) ELSE <<>>]
            /\ dlPc' = [dlPc EXCEPT ![c] = IF ok /\ Tail(dlToDelete[c]) # <<>> THEN "unlink" ELSE "loop"]
    /\ UNCHANGED <<dlArmed, now, calls, dlRetries, dlFile, dlError, dlResult, dlBefore,
                   dlPlan, dlAttempts, dlWaits, dlToasts, toasts, cvVars, inVars, extVars>>

\* One iteration of the for loop: unlink resolves (the file is gone) or rejects
\* (the inner catch logs a warning); either way the loop goes on.
CleanUnlink(c) ==
    /\ dlPc[c] = "unlink"
    /\ LET file == Head(dlToDelete[c])
       IN \E ok \in BOOLEAN :
            /\ files' = IF ok THEN files \ {file} ELSE files
            /\ cleanFailed' = (cleanFailed \/ ~ok)
            /\ dlCleanLog' = [dlCleanLog EXCEPT ![c] = Append(@, [op |-> "unlink", ok |-> ok, file |-> file])]
    /\ dlToDelete' = [dlToDelete EXCEPT ![c] = Tail(@)]
    /\ dlPc' = [dlPc EXCEPT ![c] = IF Tail(dlToDelete[c]) = <<>> THEN "loop" ELSE "unlink"]
    /\ UNCHANGED <<dlArmed, now, calls, dlRetries, dlFile, dlError, dlResult, dlBefore,
                   dlPlan, dlAttempts, dlWaits, dlToasts, toasts, cvVars, inVars, extVars>>

(***************************************************************************)
(* downloadApk                                                             *)
(***************************************************************************)
\* What can show on the clock at a read beyond the time already accounted
\* for: nothing (the same millisecond) or some milliseconds.
Elapsed == {0, 5}

LaterOf(a, b) == IF a >= b THEN a ELSE b

DownloadToast == [type |-> "error", text1 |-> "download failed", text2 |-> "check network"]

\* while (retries < maxRetries): read the clock, on which the time that has
\* passed since `now` shows, name the file after it, start the task.
DlLoopEnter(c) ==
    /\ dlPc[c] = "loop"
    /\ dlRetries[c] < maxRetries
    /\ \E elapsed \in Elapsed :
          /\ now' = now + elapsed
          /\ dlFile' = [dlFile EXCEPT ![c] = ApkName(now + elapsed)]
    /\ dlAttempts' = [dlAttempts EXCEPT ![c] = @ + 1]
    /\ dlPc' = [dlPc EXCEPT ![c] = "task"]
    /\ UNCHANGED <<dlArmed, files, calls, dlRetries, dlToDelete, dlError, dlResult, dlBefore,
                   dlPlan, dlCleanLog, dlWaits, dlToasts, cleanFailed, toasts, cvVars, inVars, extVars>>

\* The loop ends without returning: throw "Maximum retry attempts exceeded for download".
DlLoopExit(c) ==
    /\ dlPc[c] = "loop"
    /\ ~(dlRetries[c] < maxRetries)
    /\ dlResult' = [dlResult EXCEPT ![c] =
                      [kind |-> "thrown", error |-> Err("max", "Maximum retry attempts exceeded for download", 0)]]
    /\ dlPc' = [dlPc EXCEPT ![c] = "thrown"]
    /\ UNCHANGED <<dlArmed, files, now, calls, dlRetries, dlToDelete, dlFile, dlError, dlBefore,
                   dlPlan, dlCleanLog, dlAttempts, dlWaits, dlToasts, cleanFailed, toasts, cvVars, inVars, extVars>>

\* The transfer starts writing the response to filePath.
DlWriteBegins(c) ==
    /\ dlPc[c] = "task"
    /\ dlFile[c] \notin files
    /\ files' = files \cup {dlFile[c]}
    /\ UNCHANGED <<dlArmed, now, calls, dlPc, dlRetries, dlToDelete, dlFile, dlError, dlResult, dlBefore,
                   dlPlan, dlCleanLog, dlAttempts, dlWaits, dlToasts, cleanFailed, toasts, cvVars, inVars, extVars>>

\* await task resolves: the file is complete; return res.path().  A transfer
\* takes one tick of the clock at least.
DlTaskResolves(c) ==
    /\ dlPc[c] = "task"
    /\ files' = files \cup {dlFile[c]}
    /\ now' = now + 1
    /\ dlResult' = [dlResult EXCEPT ![c] = [kind |-> "returned", path |-> dlFile[c]]]
    /\ dlPc' = [dlPc EXCEPT ![c] = "returned"]
    /\ UNCHANGED <<dlArmed, calls, dlRetries, dlToDelete, dlFile, dlError, dlBefore,
                   dlPlan, dlCleanLog, dlAttempts, dlWaits, dlToasts, cleanFailed, toasts, cvVars, inVars, extVars>>

\* await task rejects: a transfer error, or the transfer was aborted by the
\* configured download timeout.  What it wrote so far stays on disk.
DlTaskRejects(c) ==
    /\ dlPc[c] = "task"
    /\ \E type \in {"network", "timeout"} :
         dlError' = [dlError EXCEPT ![c] = Err(type, type, dlAttempts[c])]
    /\ now' = now + 1
    /\ dlPc' = [dlPc EXCEPT ![c] = "catch"]
    /\ UNCHANGED <<dlArmed, files, calls, dlRetries, dlToDelete, dlFile, dlResult, dlBefore,
                   dlPlan, dlCleanLog, dlAttempts, dlWaits, dlToasts, cleanFailed, toasts, cvVars, inVars, extVars>>

\* A catch block that counts the failures of all calls in one counter.
DlCatchSharedCounter(c) ==
    /\ dlPc[c] = "catch"
    /\ dlRetries' = [d \in Callers |-> dlRetries[d] + 1]
    /\ IF dlRetries[c] + 1 = maxRetries
         THEN /\ toasts' = Append(toasts, DownloadToast)
              /\ dlToasts' = [dlToasts EXCEPT ![c] = @ + 1]
              /\ dlPc' = [dlPc EXCEPT ![c] = "rethrow"]
         ELSE /\ dlPc' = [dlPc EXCEPT ![c] = "backoff"]
              /\ UNCHANGED <<toasts, dlToasts>>
    /\ dlArmed' = [dlArmed EXCEPT ![c] = now]
    /\ UNCHANGED <<files, now, calls, dlToDelete, dlFile, dlError, dlResult, dlBefore,
                   dlPlan, dlCleanLog, dlAttempts, dlWaits, cleanFailed, cvVars, inVars, extVars>>

\* A catch block that schedules another delay after the last failure too.
DlCatchAlwaysBackoff(c) ==
    /\ dlPc[c] = "catch"
    /\ dlRetries' = [dlRetries EXCEPT ![c] = @ + 1]
    /\ dlPc' = [dlPc EXCEPT ![c] = "backoff"]
    /\ dlArmed' = [dlArmed EXCEPT ![c] = now]
    /\ UNCHANGED <<files, now, calls, dlToDelete, dlFile, dlError, dlResult, dlBefore,
                   dlPlan, dlCleanLog, dlAttempts, dlWaits, dlToasts, cleanFailed, toasts,
                   cvVars, inVars, extVars>>

\* catch (error) { retries++; if (retries === maxRetries) { Toast.show(...)
\* Otherwise setTimeout is called, at a moment the model takes to be `now`:
\* the time that passes later shows when the clock is read next.
DlCatch(c) ==
    /\ dlPc[c] = "catch"
    /\ dlRetries' = [dlRetries EXCEPT ![c] = @ + 1]
    /\ IF dlRetries[c] + 1 = maxRetries
         THEN /\ toasts' = Append(toasts, DownloadToast)
              /\ dlToasts' = [dlToasts EXCEPT ![c] = @ + 1]
              /\ dlPc' = [dlPc EXCEPT ![c] = "rethrow"]
         ELSE /\ dlPc' = [dlPc EXCEPT ![c] = "backoff"]
              /\ UNCHANGED <<toasts, dlToasts>>
    /\ dlArmed' = [dlArmed EXCEPT ![c] = now]
    /\ UNCHANGED <<files, now, calls, dlToDelete, dlFile, dlError, dlResult, dlBefore,
                   dlPlan, dlCleanLog, dlAttempts, dlWaits, cleanFailed, cvVars, inVars, extVars>>

\* throw new Error(`Download failed after ${maxRetries} attempts: ${error}`)
DlRethrow(c) ==
    /\ dlPc[c] = "rethrow"
    /\ dlResult' = [dlResult EXCEPT ![c] =
                      [kind |-> "thrown",
                       error |-> [kind |-> "error", isError |-> TRUE, type |-> "download",
                                  attempts |-> maxRetries, cause |-> dlError[c]]]]
    /\ dlPc' = [dlPc EXCEPT ![c] = "thrown"]
    /\ UNCHANGED <<dlArmed, files, now, calls, dlRetries, dlToDelete, dlFile, dlError, dlBefore,
                   dlPlan, dlCleanLog, dlAttempts, dlWaits, dlToasts, cleanFailed, toasts, cvVars, inVars, extVars>>

\* A back-off that waits the base delay every time.
DlBackoffFlat(c) ==
    /\ dlPc[c] = "backoff"
    /\ dlWaits' = [dlWaits EXCEPT ![c] = Append(@, DownloadBackoffMs)]
    /\ now' = LaterOf(now, dlArmed[c] + DownloadBackoffMs)
    /\ dlArmed' = [dlArmed EXCEPT ![c] = 0]
    /\ dlError' = [dlError EXCEPT ![c] = NoValue]
    /\ dlPc' = [dlPc EXCEPT ![c] = "loop"]
    /\ UNCHANGED <<files, calls, dlRetries, dlToDelete, dlFile, dlResult, dlBefore,
                   dlPlan, dlCleanLog, dlAttempts, dlToasts, cleanFailed, toasts, cvVars, inVars, extVars>>

\* await new Promise(resolve => setTimeout(resolve, 3000 * retries)): the timer
\* fires when the delay has passed since it was armed, whatever other calls
\* did in between.
DlBackoff(c) ==
    /\ dlPc[c] = "backoff"
    /\ dlWaits' = [dlWaits EXCEPT ![c] = Append(@, DownloadBackoffMs * dlRetries[c])]
    /\ now' = LaterOf(now, dlArmed[c] + DownloadBackoffMs * dlRetries[c])
    /\ dlArmed' = [dlArmed EXCEPT ![c] = 0]
    /\ dlError' = [dlError EXCEPT ![c] = NoValue]
    /\ dlPc' = [dlPc EXCEPT ![c] = "loop"]
    /\ UNCHANGED <<files, calls, dlRetries, dlToDelete, dlFile, dlResult, dlBefore,
                   dlPlan, dlCleanLog, dlAttempts, dlToasts, cleanFailed, toasts, cvVars, inVars, extVars>>

\* One step of the downloadApk call of call site c.
DlStep(c) ==
    \/ CleanLsResolves(c)
    \/ CleanLsRejects(c)
    \/ CleanUnlink(c)
    \/ DlLoopEnter(c)
    \/ DlWriteBegins(c)
    \/ DlTaskResolves(c)
    \/ DlTaskRejects(c)
    \/ DlCatch(c)
    \/ DlRethrow(c)
    \/ DlBackoff(c)

\* Calls made one after the other from one call site.
SerialCall ==
    /\ calls < MaxSerial
    /\ DownloadApkCall(1)

DlNext ==
    \/ SerialCall
    \/ DlStep(1)

SpecDownload == Init /\ [][DlNext]_vars

\* One call on a directory that holds earlier downloads.
FirstCall ==
    /\ calls = 0
    /\ DownloadApkCall(1)

RetentionNext ==
    \/ FirstCall
    \/ DlStep(1)

SpecRetention == InitWithFiles /\ [][RetentionNext]_vars

(***************************************************************************)
(* downloadApk called once from each of two call sites, the calls          *)
(* overlapping in time in every possible way, on a directory that holds    *)
(* one file more than the cleanup keeps.  Every await of a call (line 110, *)
(* the unlinks, the transfer, the back-off timer) is a point at which the  *)
(* other call may run; no step of a call waits for the other call.         *)
(***************************************************************************)
\* The document directory holds one file more than the cleanup keeps.
InitRetry ==
    /\ CvInit
    /\ DlIdle
    /\ InIdle
    /\ ExtIdle
    /\ files = {ApkName(t) : t \in 1..(KeepNewest + 1)}
    /\ now = NumOld + 1
    /\ toasts = <<>>

\* The call sites are interchangeable: they are numbered in the order in which
\* they call.
CallOnce(c) ==
    /\ dlPc[c] = "idle"
    /\ \A d \in Callers : d < c => dlPc[d] # "idle"
    /\ DownloadApkCall(c)

\* The transfer of call c fails by a network error.
DlTaskRejectsNetwork(c) ==
    /\ DlTaskRejects(c)
    /\ dlError'[c].type = "network"

ConcurrentStep(c) ==
    \/ CleanLsResolves(c)
    \/ CleanLsRejects(c)
    \/ CleanUnlink(c)
    \/ DlLoopEnter(c)
    \/ DlWriteBegins(c)
    \/ DlTaskResolves(c)
    \/ DlTaskRejects(c)
    \/ DlCatch(c)
    \/ DlRethrow(c)
    \/ DlBackoff(c)

ConcurrentNext ==
    \E c \in Callers :
        \/ CallOnce(c)
        \/ ConcurrentStep(c)

SpecConcurrent == InitRetry /\ [][ConcurrentNext]_vars

(***************************************************************************)
(* A slow download at one call site while another call site downloads      *)
(* repeatedly: the transfer of site 1 stays in flight, site 2 makes one    *)
(* call after the other.  No cleanup operation fails and the transfers     *)
(* that fail do so by a network error.                                     *)
(***************************************************************************)
SlowCall ==
    /\ calls = 0
    /\ DownloadApkCall(1)

SlowStep ==
    \/ CleanLsResolves(1)
    \/ DlLoopEnter(1)
    \/ DlWriteBegins(1)

NextCall ==
    /\ calls > 0
    /\ DownloadApkCall(2)

\* The unlink of the cleanup of call c succeeds.
CleanUnlinkDone(c) ==
    /\ CleanUnlink(c)
    /\ ~cleanFailed'

OverlapStep ==
    \/ CleanLsResolves(2)
    \/ CleanUnlinkDone(2)
    \/ DlLoopEnter(2)
    \/ DlWriteBegins(2)
    \/ DlTaskResolves(2)
    \/ DlTaskRejectsNetwork(2)
    \/ DlCatch(2)
    \/ DlRethrow(2)
    \/ DlBackoff(2)

OverlapNext ==
    \/ SlowCall
    \/ SlowStep
    \/ NextCall
    \/ OverlapStep

SpecOverlap == Init /\ [][OverlapNext]_vars

(***************************************************************************)
(* The two retried operations in the order of the update flow: one         *)
(* checkVersion call and, once it has returned a version, one downloadApk  *)
(* call.  Every continuation that is ready is eventually run by the event  *)
(* loop, and every fetch or transfer in flight eventually settles.         *)
(***************************************************************************)
CvProgress ==
    \/ CvLoopEnter
    \/ CvFetchResolves
    \/ CvFetchRejects
    \/ CvTimeout
    \/ CvResponseStep
    \/ CvCatch
    \/ CvRethrow
    \/ CvBackoff

\* The version that checkVersion returned is downloaded.
DownloadAfterCheck ==
    /\ cvPc = "returned"
    /\ FirstCall

RetryNext ==
    \/ CvNext
    \/ DownloadAfterCheck
    \/ DlStep(1)

SpecRetry ==
    /\ InitRetry
    /\ [][RetryNext]_vars
    /\ WF_vars(CvProgress)
    /\ WF_vars(DlStep(1))

(***************************************************************************)
(* installApk                                                              *)
(***************************************************************************)
\* What await InstallApk.canRequestPackageInstalls?.() may give: the method is
\* missing (the optional call yields undefined), or the query resolves to
\* true, to false or to no value, or it rejects.
PermissionAnswers == {"unavailable", "true", "false", "undefined", "rejected"}

InstallToast(error) ==
    [type |-> "error", text1 |-> "install failed",
     text2 |-> IF error.isError THEN error.message ELSE "error while installing the APK"]

\* installApk(filePath) is entered: await ReactNativeBlobUtil.fs.exists(filePath).
InstallApkCall ==
    /\ inPc = "idle"
    /\ \E t \in 1..NumOld : inPath' = ApkName(t)
    /\ inPc' = "exists"
    /\ inLog' = <<"exists">>
    /\ UNCHANGED <<inExists, inPerm, inError, inResult, installerCalls, installation, inToasts,
                   toasts, cvVars, dlVars, extVars>>

\* Line 173, the call: InstallApk.canRequestPackageInstalls?.() is made where
\* the native module has the method (the optional call yields undefined where
\* it has not), and the answer is awaited.
CanRequestCall ==
    /\ \E available \in BOOLEAN :
         inLog' = IF available THEN Append(inLog, "canRequest") ELSE inLog
    /\ inPc' = "canRequest"

\* The permission query has been made and its answer is awaited.
QueryPending == inLog[Len(inLog)] = "canRequest"

\* What the await of line 173 can give: no answer where no query was made,
\* and otherwise what the query answers.
AwaitedAnswers ==
    IF QueryPending THEN PermissionAnswers \ {"unavailable"} ELSE {"unavailable"}

\* An installApk that does not look at the answer of exists.
InExistsResolvesUnchecked ==
    /\ inPc = "exists"
    /\ inExists' = IF inPath \in files THEN "yes" ELSE "no"
    /\ CanRequestCall
    /\ UNCHANGED <<inPath, inPerm, inError, inResult, installerCalls, installation, inToasts,
                   toasts, cvVars, dlVars, extVars>>

\* exists resolves; if (!exists) throw new Error('install file missing');
\* otherwise the permission query is made in the same task.
InExistsResolves ==
    /\ inPc = "exists"
    /\ LET exists == inPath \in files
       IN IF ~exists
            THEN /\ inExists' = "no"
                 /\ inError' = Err("missing", "install file missing", 0)
                 /\ inPc' = "catch"
                 /\ UNCHANGED inLog
            ELSE /\ inExists' = "yes"
                 /\ CanRequestCall
                 /\ UNCHANGED inError
    /\ UNCHANGED <<inPath, inPerm, inResult, installerCalls, installation, inToasts,
                   toasts, cvVars, dlVars, extVars>>

\* exists rejects.
InExistsRejects ==
    /\ inPc = "exists"
    /\ inExists' = "rejected"
    /\ inError' = Err("fs", "exists failed", 0)
    /\ inPc' = "catch"
    /\ UNCHANGED <<inPath, inPerm, inResult, inLog, installerCalls, installation, inToasts,
                   toasts, cvVars, dlVars, extVars>>

\* A permission gate that opens the settings and installs all the same.
InCanRequestNoThrow ==
    /\ inPc = "canRequest"
    /\ \E answer \in AwaitedAnswers :
         /\ inPerm' = answer
         /\ IF answer = "rejected"
              THEN /\ inError' = Err("query", "permission query failed", 0)
                   /\ inPc' = "catch"
                   /\ UNCHANGED inLog
            ELSE /\ inLog' = IF answer = "false" THEN Append(inLog, "openSettings") ELSE inLog
                 /\ inPc' = "install"
                 /\ UNCHANGED inError
    /\ UNCHANGED <<inPath, inExists, inResult, installerCalls, installation, inToasts,
                   toasts, cvVars, dlVars, extVars>>

\* A permission gate that tests !canInstall instead of canInstall === false.
InCanRequestFalsy ==
    /\ inPc = "canRequest"
    /\ \E answer \in AwaitedAnswers :
         /\ inPerm' = answer
         /\ IF answer = "rejected"
              THEN /\ inError' = Err("query", "permission query failed", 0)
                   /\ inPc' = "catch"
                   /\ UNCHANGED inLog
            ELSE IF answer # "true"
              THEN /\ inLog' = Append(inLog, "openSettings")
                   /\ inError' = Err("permission", "allow installing apps from unknown sources", 0)
                   /\ inPc' = "catch"
            ELSE /\ inPc' = "install"
                 /\ UNCHANGED <<inLog, inError>>
    /\ UNCHANGED <<inPath, inExists, inResult, installerCalls, installation, inToasts,
                   toasts, cvVars, dlVars, extVars>>

\* Lines 173-178, the continuation: the awaited answer arrives (a rejection
\* is thrown into the catch block), and if (canInstall === false) the
\* settings are opened and the permission error is thrown.
InCanRequest ==
    /\ inPc = "canRequest"
    /\ \E answer \in AwaitedAnswers :
         /\ inPerm' = answer
         /\ IF answer = "rejected"
              THEN /\ inError' = Err("query", "permission query failed", 0)
                   /\ inPc' = "catch"
                   /\ UNCHANGED inLog
            ELSE IF answer = "false"
              THEN /\ inLog' = Append(inLog, "openSettings")
                   /\ inError' = Err("permission", "allow installing apps from unknown sources", 0)
                   /\ inPc' = "catch"
            ELSE /\ inPc' = "install"
                 /\ UNCHANGED <<inLog, inError>>
    /\ UNCHANGED <<inPath, inExists, inResult, installerCalls, installation, inToasts,
                   toasts, cvVars, dlVars, extVars>>

\* InstallApk.install(filePath): the installer takes over, or the call throws.
InInstall ==
    /\ inPc = "install"
    /\ inLog' = Append(inLog, "install")
    /\ installerCalls' = Append(installerCalls, inPath)
    /\ \E thrown \in BOOLEAN :
         IF thrown
           THEN /\ inError' = Err("installer", "installer failed", 0)
                /\ inPc' = "catch"
                /\ UNCHANGED installation
           ELSE /\ installation' = "pending"
                /\ inPc' = "called"
                /\ UNCHANGED inError
    /\ UNCHANGED <<inPath, inExists, inPerm, inResult, inToasts, toasts, cvVars, dlVars, extVars>>

\* The end of the try block is reached: installApk returns.
InReturn ==
    /\ inPc = "called"
    /\ inResult' = [kind |-> "returned"]
    /\ inPc' = "returned"
    /\ UNCHANGED <<inPath, inExists, inPerm, inError, inLog, installerCalls, installation,
                   inToasts, toasts, cvVars, dlVars, extVars>>

\* The OS installer finishes, with the package installed or not.
InstallerFinishes ==
    /\ installation = "pending"
    /\ \E outcome \in {"installed", "failed"} : installation' = outcome
    /\ UNCHANGED <<inPc, inPath, inExists, inPerm, inError, inResult, inLog, installerCalls,
                   inToasts, toasts, cvVars, dlVars, extVars>>

\* A catch block that shows the notification and swallows the error.
InCatchSwallow ==
    /\ inPc = "catch"
    /\ toasts' = Append(toasts, InstallToast(inError))
    /\ inToasts' = inToasts + 1
    /\ inResult' = [kind |-> "returned"]
    /\ inPc' = "returned"
    /\ UNCHANGED <<inPath, inExists, inPerm, inError, inLog, installerCalls,
                   installation, cvVars, dlVars, extVars>>

\* catch (error) { logger.info(...); Toast.show({...}); ...
InCatch ==
    /\ inPc = "catch"
    /\ toasts' = Append(toasts, InstallToast(inError))
    /\ inToasts' = inToasts + 1
    /\ inPc' = "rethrow"
    /\ UNCHANGED <<inPath, inExists, inPerm, inError, inResult, inLog, installerCalls,
                   installation, cvVars, dlVars, extVars>>

\* ... throw error; }
InRethrow ==
    /\ inPc = "rethrow"
    /\ inResult' = [kind |-> "thrown", error |-> inError]
    /\ inPc' = "thrown"
    /\ UNCHANGED <<inPath, inExists, inPerm, inError, inLog, installerCalls, installation,
                   inToasts, toasts, cvVars, dlVars, extVars>>

InNext ==
    \/ InstallApkCall
    \/ InExistsResolves
    \/ InExistsRejects
    \/ InCanRequest
    \/ InInstall
    \/ InReturn
    \/ InstallerFinishes
    \/ InCatch
    \/ InRethrow

\* installApk on a device whose document directory holds earlier downloads.
SpecInstall == InitWithFiles /\ [][InNext]_vars

(***************************************************************************)
(* compareVersions and isUpdateAvailable.  A version string is a sequence  *)
(* of characters; the code splits it at the dots and converts every piece  *)
(* to a number.                                                            *)
(***************************************************************************)
\* The numbers a component of a version string is written from, and the
\* version strings of 1..MaxParts components.
PartValues == {0, 1, 9, 10}

PartSeqs == UNION {[1..n -> PartValues] : n \in 1..MaxParts}

RECURSIVE Split(_)
\* v.split("."): the pieces between the dots, empty pieces included.
Split(str) ==
    IF \A i \in 1..Len(str) : str[i] # "." THEN <<str>>
    ELSE LET d == CHOOSE i \in 1..Len(str) :
                      /\ str[i] = "."
                      /\ \A j \in (i + 1)..Len(str) : str[j] # "."
         IN  Split(SubSeq(str, 1, d - 1)) \o <<SubSeq(str, d + 1, Len(str))>>

DigitValue(ch) == (CHOOSE d \in 1..10 : Digit[d] = ch) - 1

NumberLastDigit(str) ==
    IF str = <<>> THEN 0 ELSE DigitValue(str[Len(str)])

RECURSIVE Number(_)
\* Number(piece) for a piece made of decimal digits; Number("") is 0.
Number(str) ==
    IF str = <<>> THEN 0
    ELSE Number(SubSeq(str, 1, Len(str) - 1)) * 10 + DigitValue(str[Len(str)])

\* v.split(".").map(Number)
Parts(str) == LET pieces == Split(str) IN [i \in 1..Len(pieces) |-> Number(pieces[i])]

\* parts[i] || 0, with i counted from 1: undefined and 0 both give 0.
PartOrZero(parts, i) == IF i > Len(parts) THEN 0 ELSE parts[i]

RECURSIVE CompareFrom(_, _, _)
\* The for loop from index i on.
CompareFrom(parts1, parts2, i) ==
    IF i > (IF Len(parts1) > Len(parts2) THEN Len(parts1) ELSE Len(parts2)) THEN 0
    ELSE LET part1 == PartOrZero(parts1, i)
             part2 == PartOrZero(parts2, i)
         IN  IF part1 > part2 THEN 1
             ELSE IF part1 < part2 THEN -1
             ELSE CompareFrom(parts1, parts2, i + 1)

RECURSIVE CompareFromUpToFirst(_, _, _)
CompareFromUpToFirst(parts1, parts2, i) ==
    IF i > Len(parts1) THEN 0
    ELSE LET part1 == PartOrZero(parts1, i)
             part2 == PartOrZero(parts2, i)
         IN  IF part1 > part2 THEN 1
             ELSE IF part1 < part2 THEN -1
             ELSE CompareFromUpToFirst(parts1, parts2, i + 1)

compareVersionsUpToFirst(v1, v2) == CompareFromUpToFirst(Parts(v1), Parts(v2), 1)

compareVersions(v1, v2) == CompareFrom(Parts(v1), Parts(v2), 1)

isUpdateAvailableOrEqual(remote) == compareVersions(remote, currentVersion) >= 0

isUpdateAvailable(remote) == compareVersions(remote, currentVersion) > 0

\* Any two version strings: one received from the manifest, one built in.
InitVersions ==
    /\ CvInit
    /\ DlIdle
    /\ InIdle
    /\ files = {}
    /\ now = 1
    /\ toasts = <<>>
    /\ \E a \in PartSeqs, b \in PartSeqs :
          /\ remoteParts = a
          /\ vRemote = FormatVersion(a)
          /\ currentParts = b
          /\ currentVersion = FormatVersion(b)
    /\ vcCall = NoValue
    /\ LgIdle
    /\ AcIdle
    /\ isLoginModalVisible = FALSE
    /\ storageType = "undefined"

\* compareVersions(v1, v2) is called with the two strings in either order.
CompareVersionsCall ==
    /\ \E o \in {"remote-current", "current-remote"} :
          LET v1 == IF o = "remote-current" THEN vRemote ELSE currentVersion
              v2 == IF o = "remote-current" THEN currentVersion ELSE vRemote
          IN  vcCall' = [kind |-> "compareVersions", order |-> o,
                         result |-> compareVersions(v1, v2)]
    /\ UNCHANGED <<vRemote, currentVersion, remoteParts, currentParts,
                   cvVars, dlVars, inVars, lgVars, acVars, toasts>>

\* isUpdateAvailable(vRemote)
IsUpdateAvailableCall ==
    /\ vcCall' = [kind |-> "isUpdateAvailable", order |-> "remote-current",
                  result |-> isUpdateAvailable(vRemote)]
    /\ UNCHANGED <<vRemote, currentVersion, remoteParts, currentParts,
                   cvVars, dlVars, inVars, lgVars, acVars, toasts>>

VcNext == CompareVersionsCall \/ IsUpdateAvailableCall

SpecVersions == InitVersions /\ [][VcNext]_vars

(***************************************************************************)
(* LoginModal (src/components/LoginModal.tsx): the inputs, the login       *)
(* button, and handleLogin, whose runs are followed one by one.  A handler *)
(* runs to its first await without interruption, and the component is      *)
(* rendered again before the next event is handled.                        *)
(***************************************************************************)
StorageTypes == {"localstorage", "redis", "undefined"}
Usernames == {"", "user"}
Passwords == {"", "secret"}

\* What a rejected collaborator call throws: an Error or another value.
LoginErrors == {[isError |-> TRUE, message |-> "401"], [isError |-> FALSE, message |-> ""]}

InvalidToast == [type |-> "error", text1 |-> "enter username and password", text2 |-> ""]
SuccessToast == [type |-> "success", text1 |-> "login succeeded", text2 |-> ""]
FailureToast(error) ==
    [type |-> "error", text1 |-> "login failed",
     text2 |-> IF error.isError THEN error.message ELSE "wrong username or password"]

\* What an earlier login may have stored: save is called with the username
\* and the password of a login that passed the validation.
StoredCredentials ==
    {[username |-> u, password |-> p] : u \in Usernames, p \in Passwords \ {""}}

\* The modal has been opened on a server of some storage type, with or
\* without stored credentials: the inputs are empty, and unless the page is
\* the settings page the first effect has called loadCredentials, which
\* awaits LoginCredentialsManager.get().
InitLogin ==
    /\ CvInit
    /\ DlIdle
    /\ InIdle
    /\ VcIdle
    /\ LgFresh
    /\ AcIdle
    /\ files = {}
    /\ now = 1
    /\ toasts = <<>>
    /\ isLoginModalVisible = TRUE
    /\ storageType \in StorageTypes
    /\ savedCredentials \in StoredCredentials \cup {NoValue}
    /\ isSettingsPage \in BOOLEAN
    /\ lgLoad = IF isSettingsPage THEN "idle" ELSE "get"

lgFrame == <<cvVars, dlVars, inVars, vcVars, acVars, isSettingsPage, lgLoad>>

\* Line 101: visible={isLoginModalVisible && !isSettingsPage}; the inputs and
\* the button are mounted, and a back press reaches the modal, only while it
\* is visible.
ModalVisible == isLoginModalVisible /\ ~isSettingsPage

\* await LoginCredentialsManager.get() resolves with what the storage holds:
\* credentials that were stored are put into the two inputs.
LoadCredentialsResolves ==
    /\ lgLoad = "get"
    /\ IF savedCredentials # NoValue
         THEN /\ username' = savedCredentials.username
              /\ password' = savedCredentials.password
         ELSE UNCHANGED <<username, password>>
    /\ lgLoad' = "done"
    /\ UNCHANGED <<isLoginModalVisible, storageType, isLoading, savedCredentials,
                   lgStarted, lgPc, lgArgs, lgLog, toasts, isSettingsPage,
                   cvVars, dlVars, inVars, vcVars, acVars>>

\* await LoginCredentialsManager.get() rejects: nothing catches it and the
\* inputs stay as they are.
LoadCredentialsRejects ==
    /\ lgLoad = "get"
    /\ lgLoad' = "done"
    /\ UNCHANGED <<isLoginModalVisible, storageType, username, password, isLoading, savedCredentials,
                   lgStarted, lgPc, lgArgs, lgLog, toasts, isSettingsPage,
                   cvVars, dlVars, inVars, vcVars, acVars>>

\* onChangeText of the username input, which is rendered unless the server
\* is in localstorage mode: the text has changed.
SetUsername ==
    /\ ModalVisible
    /\ storageType # "localstorage"
    /\ \E u \in Usernames \ {username} : username' = u
    /\ UNCHANGED <<isLoginModalVisible, storageType, password, isLoading, savedCredentials,
                   lgStarted, lgPc, lgArgs, lgLog, toasts, lgFrame>>

\* onChangeText of the password input: the text has changed.
SetPassword ==
    /\ ModalVisible
    /\ \E p \in Passwords \ {password} : password' = p
    /\ UNCHANGED <<isLoginModalVisible, storageType, username, isLoading, savedCredentials,
                   lgStarted, lgPc, lgArgs, lgLog, toasts, lgFrame>>

\* handleLogin up to its first await: the validation, then setIsLoading(true)
\* and the call of api.login.
handleLogin(r, trigger) ==
    /\ LET isLocalStorage == storageType = "localstorage"
       IN IF password = "" \/ (~isLocalStorage /\ username = "")
            THEN /\ toasts' = Append(toasts, InvalidToast)
                 /\ lgPc' = [lgPc EXCEPT ![r] = "invalid"]
                 /\ lgLog' = [lgLog EXCEPT ![r] = <<trigger, "toastInvalid">>]
                 /\ UNCHANGED <<isLoading, lgArgs>>
            ELSE /\ isLoading' = TRUE
                 /\ lgArgs' = [lgArgs EXCEPT ![r] =
                                 [username |-> IF isLocalStorage THEN "undefined" ELSE username,
                                  password |-> password,
                                  credentials |-> [username |-> username, password |-> password]]]
                 /\ lgPc' = [lgPc EXCEPT ![r] = "login"]
                 /\ lgLog' = [lgLog EXCEPT ![r] = <<trigger, "setLoading", "login">>]
                 /\ UNCHANGED toasts
    /\ lgStarted' = lgStarted + 1
    /\ UNCHANGED <<isLoginModalVisible, storageType, username, password, savedCredentials, lgFrame>>

\* onPress of the login button, which is disabled while isLoading.
PressLogin ==
    /\ ModalVisible
    /\ ~isLoading
    /\ lgStarted < MaxLogins
    /\ handleLogin(lgStarted + 1, "press")

\* onSubmitEditing of the password input.
SubmitPassword ==
    /\ ModalVisible
    /\ lgStarted < MaxLogins
    /\ handleLogin(lgStarted + 1, "submit")

\* onRequestClose of the modal: hideLoginModal.
RequestClose ==
    /\ ModalVisible
    /\ isLoginModalVisible' = FALSE
    /\ UNCHANGED <<storageType, username, password, isLoading, savedCredentials,
                   lgStarted, lgPc, lgArgs, lgLog, toasts, lgFrame>>

\* await api.login resolves: checkLoginStatus(apiBaseUrl) is called.
LoginResolves(r) ==
    /\ lgPc[r] = "login"
    /\ lgPc' = [lgPc EXCEPT ![r] = "checkLoginStatus"]
    /\ lgLog' = [lgLog EXCEPT ![r] = Append(@, "checkLoginStatus")]
    /\ UNCHANGED <<isLoginModalVisible, storageType, username, password, isLoading,
                   savedCredentials, lgStarted, lgArgs, toasts, lgFrame>>

\* await checkLoginStatus resolves: refreshPlayRecords() is called.
CheckLoginStatusResolves(r) ==
    /\ lgPc[r] = "checkLoginStatus"
    /\ lgPc' = [lgPc EXCEPT ![r] = "refreshPlayRecords"]
    /\ lgLog' = [lgLog EXCEPT ![r] = Append(@, "refreshPlayRecords")]
    /\ UNCHANGED <<isLoginModalVisible, storageType, username, password, isLoading,
                   savedCredentials, lgStarted, lgArgs, toasts, lgFrame>>

\* await refreshPlayRecords resolves: LoginCredentialsManager.save is called
\* with the username and password of the render the handler belongs to.
RefreshPlayRecordsResolves(r) ==
    /\ lgPc[r] = "refreshPlayRecords"
    /\ lgPc' = [lgPc EXCEPT ![r] = "save"]
    /\ lgLog' = [lgLog EXCEPT ![r] = Append(@, "save")]
    /\ UNCHANGED <<isLoginModalVisible, storageType, username, password, isLoading,
                   savedCredentials, lgStarted, lgArgs, toasts, lgFrame>>

\* await save resolves: success toast, hideLoginModal(), Alert.alert, and the
\* finally block.
SaveResolves(r) ==
    /\ lgPc[r] = "save"
    /\ savedCredentials' = lgArgs[r].credentials
    /\ toasts' = Append(toasts, SuccessToast)
    /\ isLoginModalVisible' = FALSE
    /\ isLoading' = FALSE
    /\ lgPc' = [lgPc EXCEPT ![r] = "done"]
    /\ lgLog' = [lgLog EXCEPT ![r] = @ \o <<"toastSuccess", "hideLoginModal", "alert", "clearLoading">>]
    /\ UNCHANGED <<storageType, username, password, lgStarted, lgArgs, lgFrame>>

\* A catch block without the finally block.
AwaitRejectsNoFinally(r) ==
    /\ lgPc[r] \in {"login", "checkLoginStatus", "refreshPlayRecords", "save"}
    /\ \E error \in LoginErrors : toasts' = Append(toasts, FailureToast(error))
    /\ lgPc' = [lgPc EXCEPT ![r] = "failed"]
    /\ lgLog' = [lgLog EXCEPT ![r] = @ \o <<"toastFailure">>]
    /\ UNCHANGED <<isLoginModalVisible, storageType, username, password, isLoading, savedCredentials,
                   lgStarted, lgArgs, lgFrame>>

\* The awaited call rejects: the catch block shows the failure toast, the
\* finally block clears the loading flag.
AwaitRejects(r) ==
    /\ lgPc[r] \in {"login", "checkLoginStatus", "refreshPlayRecords", "save"}
    /\ \E error \in LoginErrors : toasts' = Append(toasts, FailureToast(error))
    /\ isLoading' = FALSE
    /\ lgPc' = [lgPc EXCEPT ![r] = "failed"]
    /\ lgLog' = [lgLog EXCEPT ![r] = @ \o <<"toastFailure", "clearLoading">>]
    /\ UNCHANGED <<isLoginModalVisible, storageType, username, password, savedCredentials,
                   lgStarted, lgArgs, lgFrame>>

LgNext ==
    \/ LoadCredentialsResolves
    \/ LoadCredentialsRejects
    \/ SetUsername
    \/ SetPassword
    \/ PressLogin
    \/ SubmitPassword
    \/ RequestClose
    \/ \E r \in LoginRuns :
          \/ LoginResolves(r)
          \/ CheckLoginStatusResolves(r)
          \/ RefreshPlayRecordsResolves(r)
          \/ SaveResolves(r)
          \/ AwaitRejects(r)

SpecLogin == InitLogin /\ [][LgNext]_vars

(***************************************************************************)
(* useApiConfig (src/components/LoginModal.tsx): the hook reads apiBaseUrl, *)
(* serverConfig and isLoadingServerConfig from the settings store, which   *)
(* changes them at any time.  After every change the component is rendered *)
(* again and the effects whose dependencies changed run in the order in    *)
(* which they are written; a validateConfig run goes on after its await    *)
(* when api.getServerConfig settles.  Strings that the code trims are      *)
(* sequences of characters, and messages that it searches are sequences of *)
(* words.                                                                  *)
(***************************************************************************)
Urls == {<<>>, <<" ">>, <<"a">>, <<"b">>}
Configs == {"null", "config1", "config2"}

\* What api.getServerConfig throws: an Error or another value.
ConfigErrors ==
    {[isError |-> TRUE, message |-> <<"UNAUTHORIZED">>],
     [isError |-> TRUE, message |-> <<"Network", "timeout">>],
     [isError |-> TRUE, message |-> <<"status", "404">>],
     [isError |-> FALSE, message |-> <<"UNAUTHORIZED">>]}

\* String.prototype.trim
RECURSIVE TrimStart(_)
TrimStart(str) ==
    IF str # <<>> /\ Head(str) = " " THEN TrimStart(Tail(str)) ELSE str

RECURSIVE TrimEnd(_)
TrimEnd(str) ==
    IF str # <<>> /\ str[Len(str)] = " "
      THEN TrimEnd(SubSeq(str, 1, Len(str) - 1))
      ELSE str

Trim(str) == TrimEnd(TrimStart(str))

\* const isConfigured = Boolean(apiBaseUrl && apiBaseUrl.trim());
IsConfigured(url) == url # <<>> /\ Trim(url) # <<>>

\* error.message.includes(word)
Includes(message, word) == \E i \in 1..Len(message) : message[i] = word

\* The texts the hook stores in `error`, named by what they say.
ConnectFailedMessage == "server connection failed"
UrlNotSetMessage == "API address not set"
UnauthorizedMessage == "server authentication failed"
NetworkMessage == "network connection failed, check the network or the server address"
TimeoutMessage == "connection timed out, check the server address"
NotFoundMessage == "server address invalid, check the API path"
ServerErrorMessage == "internal server error"
NoConfigMessage == "cannot get the server configuration"

\* The message the catch block of validateConfig stores for a caught value.
ErrorMessage(error) ==
    IF ~error.isError THEN ConnectFailedMessage
    ELSE IF error.message = <<"API_URL_NOT_SET">> THEN UrlNotSetMessage
    ELSE IF error.message = <<"UNAUTHORIZED">> THEN UnauthorizedMessage
    ELSE IF Includes(error.message, "Network") THEN NetworkMessage
    ELSE IF Includes(error.message, "timeout") THEN TimeoutMessage
    ELSE IF Includes(error.message, "404") THEN NotFoundMessage
    ELSE IF Includes(error.message, "500") THEN ServerErrorMessage
    ELSE ConnectFailedMessage

\* The first effect: reset the state without a configured URL; otherwise call
\* validateConfig, which runs to its await, unless the configuration is loading.
ValidateEffect(vs, url, loading) ==
    IF ~IsConfigured(url)
      THEN [isValidating |-> FALSE, isValid |-> "false", error |-> "null"]
      ELSE IF ~loading
        THEN [vs EXCEPT !.isValidating = TRUE, !.error = "null"]
        ELSE vs

\* The first effect calls api.getServerConfig.
StartsValidation(url, loading) == IsConfigured(url) /\ ~loading

\* The second effect.
LoadingEffect(vs, loading) ==
    IF loading THEN [vs EXCEPT !.isValidating = TRUE, !.error = "null"] ELSE vs

\* The third effect.
ServerConfigEffect(vs, url, config, loading) ==
    IF ~loading /\ IsConfigured(url)
      THEN IF config # "null"
             THEN [vs EXCEPT !.isValid = "true", !.error = "null"]
             ELSE [vs EXCEPT !.isValid = "false",
                             !.error = IF vs.error # "null" THEN vs.error
                                       ELSE NoConfigMessage]
      ELSE vs

\* The outcome a state shows.
Shown(vs) == [isValid |-> vs.isValid, error |-> vs.error]

\* A render with the store values url, config and loading, after which the
\* effects named by run1, run2 and run3 run.
RunEffects(run1, run2, run3, url, config, loading) ==
    LET s1 == IF run1 THEN ValidateEffect(validationState, url, loading) ELSE validationState
        s2 == IF run2 THEN LoadingEffect(s1, loading) ELSE s1
        s3 == IF run3 THEN ServerConfigEffect(s2, url, config, loading) ELSE s2
        starts == run1 /\ StartsValidation(url, loading)
    IN  /\ starts => Len(validations) < MaxValidations
        /\ validationState' = s3
        /\ validations' = IF starts
                            THEN Append(validations, [url |-> url, outcome |-> NoValue])
                            ELSE validations
        /\ acLastWrite' = IF Shown(s3) # Shown(validationState) THEN 0 ELSE acLastWrite

acFrame == <<cvVars, dlVars, inVars, vcVars, lgVars, toasts>>

\* The hook is rendered for the first time, with whatever the store holds.
InitApiConfig ==
    /\ CvInit
    /\ DlIdle
    /\ InIdle
    /\ VcIdle
    /\ LgIdle
    /\ files = {}
    /\ now = 1
    /\ toasts = <<>>
    /\ isLoginModalVisible = FALSE
    /\ storageType = "undefined"
    /\ apiBaseUrl \in Urls
    /\ serverConfig \in Configs
    /\ isLoadingServerConfig \in BOOLEAN
    /\ acMounted = FALSE
    /\ validationState = [isValidating |-> FALSE, isValid |-> "null", error |-> "null"]
    /\ validations = <<>>
    /\ acLastWrite = 0

\* After the first render every effect runs.
Mount ==
    /\ ~acMounted
    /\ acMounted' = TRUE
    /\ RunEffects(TRUE, TRUE, TRUE, apiBaseUrl, serverConfig, isLoadingServerConfig)
    /\ UNCHANGED <<apiBaseUrl, serverConfig, isLoadingServerConfig, acFrame>>

\* The store changes the base URL.
SetApiBaseUrl ==
    /\ acMounted
    /\ \E url \in Urls \ {apiBaseUrl} :
          /\ apiBaseUrl' = url
          /\ RunEffects(TRUE, FALSE, IsConfigured(url) # IsConfigured(apiBaseUrl),
                        url, serverConfig, isLoadingServerConfig)
    /\ UNCHANGED <<serverConfig, isLoadingServerConfig, acMounted, acFrame>>

\* The store begins to load the server configuration.
LoadServerConfig ==
    /\ acMounted
    /\ ~isLoadingServerConfig
    /\ isLoadingServerConfig' = TRUE
    /\ RunEffects(TRUE, TRUE, TRUE, apiBaseUrl, serverConfig, TRUE)
    /\ UNCHANGED <<apiBaseUrl, serverConfig, acMounted, acFrame>>

\* The store ends loading, with a configuration or without one.
ServerConfigLoaded ==
    /\ acMounted
    /\ isLoadingServerConfig
    /\ isLoadingServerConfig' = FALSE
    /\ \E config \in Configs :
          /\ serverConfig' = config
          /\ RunEffects(TRUE, TRUE, TRUE, apiBaseUrl, config, FALSE)
    /\ UNCHANGED <<apiBaseUrl, acMounted, acFrame>>

\* A validateConfig run whose api.getServerConfig call has not settled.
Pending(i) == validations[i].outcome = NoValue

\* await api.getServerConfig() resolves in run i.
ValidationResolves(i) ==
    /\ i \in 1..Len(validations)
    /\ Pending(i)
    /\ validationState' = [isValidating |-> FALSE, isValid |-> "true", error |-> "null"]
    /\ validations' = [validations EXCEPT ![i].outcome = [isValid |-> "true", error |-> "null"]]
    /\ acLastWrite' = i
    /\ UNCHANGED <<apiBaseUrl, serverConfig, isLoadingServerConfig, acMounted, acFrame>>

\* await api.getServerConfig() rejects in run i: the catch block.
ValidationRejects(i) ==
    /\ i \in 1..Len(validations)
    /\ Pending(i)
    /\ \E error \in ConfigErrors :
          /\ validationState' = [isValidating |-> FALSE, isValid |-> "false",
                                 error |-> ErrorMessage(error)]
          /\ validations' = [validations EXCEPT
                               ![i].outcome = [isValid |-> "false", error |-> ErrorMessage(error)]]
    /\ acLastWrite' = i
    /\ UNCHANGED <<apiBaseUrl, serverConfig, isLoadingServerConfig, acMounted, acFrame>>

AcNext ==
    \/ Mount
    \/ SetApiBaseUrl
    \/ LoadServerConfig
    \/ ServerConfigLoaded
    \/ \E i \in 1..MaxValidations :
          \/ ValidationResolves(i)
          \/ ValidationRejects(i)

SpecApiConfig == InitApiConfig /\ [][AcNext]_vars

(***************************************************************************)
(* Vocabulary of the claims about checkVersion.                            *)
(***************************************************************************)
\* The endpoint failed at this attempt: network error, timeout, non-2xx
\* status, or a body that is not a JSON object.
CvFailed(o) ==
    \/ o.kind = "rejected"
    \/ o.kind = "response" /\ (~o.ok \/ o.body.kind \in {"malformed", "null"})

\* The endpoint served a manifest with a version at this attempt.
CvSucceeded(o) ==
    o.kind = "response" /\ o.ok /\ o.body.kind = "manifest"

\* The kind of error the failure of this attempt is.
CvErrorType(o) ==
    IF o.kind = "rejected" THEN o.type
    ELSE IF ~o.ok THEN "http"
    ELSE IF o.body.kind = "malformed" THEN "parse"
    ELSE "type"

\* Fetches started so far.
CvAttempts == Len(cvOutcomes) + (IF cvPc = "fetch" THEN 1 ELSE 0)

CvAllFailed == \A i \in 1..Len(cvOutcomes) : CvFailed(cvOutcomes[i])

\* C1: when every attempt fails, checkVersion makes exactly 3 attempts,
\* shows exactly one failure notification before it raises, raises the error
\* of the last attempt, never starts a 4th attempt and returns no VersionInfo.
C1_AllAttemptsFail ==
    /\ CvAttempts <= 3
    /\ CvAllFailed =>
          /\ cvPc # "returned"
          /\ cvResult.kind # "returned"
          /\ cvPc \in {"rethrow", "thrown"} <=>
                (Len(cvOutcomes) = 3 /\ cvPc \notin {"response", "catch"})
          /\ (Len(cvOutcomes) < 3 \/ cvPc \in {"response", "catch"}) =>
                toasts = <<>> /\ cvResult = NoValue
          /\ cvPc = "rethrow" => toasts = <<CheckToast>> /\ cvResult = NoValue
          /\ cvPc = "thrown" =>
                /\ toasts = <<CheckToast>>
                /\ cvResult.kind = "thrown"
                /\ cvResult.error.attempt = 3
                /\ cvResult.error.type = CvErrorType(cvOutcomes[3])
    /\ cvPc \in {"rethrow", "thrown"} => CvAllFailed

C1_Witness ==
    /\ cvPc = "thrown"
    /\ Len(cvOutcomes) = 3
    /\ CvAllFailed
    /\ cvOutcomes[1].kind = "rejected" /\ cvOutcomes[1].type = "abort"
    /\ cvOutcomes[2].kind = "response" /\ ~cvOutcomes[2].ok
    /\ cvOutcomes[3].kind = "response" /\ cvOutcomes[3].ok

\* C2: when the first k-1 attempts fail and attempt k (k in 1..3) serves a
\* manifest, checkVersion returns the VersionInfo of attempt k after exactly
\* k attempts, having waited 2000 ms x i after failed attempt i and nothing
\* after the successful one, and shows no notification.
C2_SucceedsAtAttemptK ==
    \A k \in 1..3 :
        ( /\ Len(cvOutcomes) = k
          /\ \A i \in 1..(k - 1) : CvFailed(cvOutcomes[i])
          /\ CvSucceeded(cvOutcomes[k])
          /\ cvPc # "response" )
        => /\ cvPc = "returned"
           /\ CvAttempts = k
           /\ cvResult = [kind |-> "returned",
                          value |-> [version |-> cvOutcomes[k].body.version,
                                     downloadUrl |-> getDownloadUrl(cvOutcomes[k].body.version)]]
           /\ cvWaits = [i \in 1..(k - 1) |-> 2000 * i]
           /\ toasts = <<>>

C2_Witness ==
    /\ cvPc = "returned"
    /\ Len(cvOutcomes) = 3
    /\ CvFailed(cvOutcomes[1]) /\ CvFailed(cvOutcomes[2])
    /\ CvSucceeded(cvOutcomes[3])
    /\ cvWaits = <<2000, 4000>>

(***************************************************************************)
(* Vocabulary of the claims about downloadApk and its cleanup step.        *)
(***************************************************************************)
\* An artifact file: a name of the shape OrionTV_v<digits>.apk.
IsArtifact(f) == f.kind = "ts"

Artifacts(S) == {f \in S : IsArtifact(f)}

\* The files of S named OrionTV_v....apk, digits in between or not.
ApkShaped(S) == {f \in S : f.kind \in {"ts", "legacy", "stamped"}}

\* The files of S that are no artifact files but carry OrionTV_v<digits>.apk
\* inside their name.
Stamped(S) == {f \in S : f.kind = "stamped"}

\* The (up to) k artifact files of S with the largest timestamps.
Newest(S, k) ==
    {f \in Artifacts(S) : Cardinality({g \in Artifacts(S) : g.n > f.n}) < k}

\* The call has left its cleanup step behind.
PastCleanup(c) == dlPc[c] \notin {"idle", "ls", "unlink"}

\* The unlink calls of the cleanup pass so far.
Unlinks(c) == SelectSeq(dlCleanLog[c], LAMBDA e : e.op = "unlink")

LsFailed(c) == \E i \in 1..Len(dlCleanLog[c]) : dlCleanLog[c][i].op = "ls" /\ ~dlCleanLog[c][i].ok

NoDeletionFailed(c) == \A i \in 1..Len(Unlinks(c)) : Unlinks(c)[i].ok

\* Artifact files on disk that no running attempt is writing.
FinishedArtifacts ==
    Artifacts(files) \ {dlFile[c] : c \in {d \in Callers : dlPc[d] = "task"}}

\* C3: downloadApk makes at most 3 attempts and waits 3000 ms x i after failed
\* attempt i < 3; the first attempt that succeeds ends the call, which returns
\* that attempt's file path without a notification; after 3 failed attempts
\* (transfer errors or timeouts) it shows one notification and then throws an
\* error carrying the count 3 and the error of the 3rd attempt.
C3_DownloadRetries ==
    \A c \in Callers :
        /\ dlAttempts[c] <= 3
        /\ dlWaits[c] = [i \in 1..Len(dlWaits[c]) |-> 3000 * i]
        /\ dlAttempts[c] >= 1 =>
             Len(dlWaits[c]) = (IF dlPc[c] = "loop" THEN dlAttempts[c] ELSE dlAttempts[c] - 1)
        /\ dlPc[c] = "returned" =>
             /\ dlResult[c] = [kind |-> "returned", path |-> ApkName(dlFile[c].n)]
             /\ dlFile[c] \in files
             /\ dlAttempts[c] = dlRetries[c] + 1
             /\ dlToasts[c] = 0
        /\ dlPc[c] = "rethrow" =>
             /\ dlToasts[c] = 1 /\ toasts[Len(toasts)] = DownloadToast
             /\ dlResult[c] = NoValue
        /\ dlPc[c] = "thrown" =>
             /\ dlAttempts[c] = 3 /\ dlRetries[c] = 3
             /\ dlToasts[c] = 1 /\ toasts[Len(toasts)] = DownloadToast
             /\ dlResult[c].kind = "thrown"
             /\ dlResult[c].error.type = "download"
             /\ dlResult[c].error.attempts = 3
             /\ dlResult[c].error.cause = dlError[c]
             /\ dlError[c].attempt = 3
        /\ dlPc[c] \notin {"rethrow", "thrown"} => dlToasts[c] = 0
        /\ dlRetries[c] = 3 => dlPc[c] \in {"rethrow", "thrown"}

\* A call that failed three times, the last time by the download timeout,
\* after waiting 3000 and 6000 ms, with an artifact file on disk.
C3_Witness ==
    /\ dlPc[1] = "thrown"
    /\ dlResult[1].error.cause.type = "timeout"
    /\ dlWaits[1] = <<3000, 6000>>
    /\ Cardinality(Artifacts(files)) >= 1

\* C4 as stated: with n > 2 artifact files before the call and no deletion
\* failing, a call whose first attempt succeeds leaves exactly the 2 newest
\* of them and the new file; with n <= 2 the cleanup deletes nothing.
C4_AsStated ==
    \A c \in Callers :
        (dlPc[c] = "returned" /\ dlAttempts[c] = 1 /\ NoDeletionFailed(c)) =>
            LET n == Cardinality(Artifacts(dlBefore[c]))
            IN /\ n > 2 =>
                    /\ Artifacts(files) = Newest(dlBefore[c], 2) \cup {dlFile[c]}
                    /\ Cardinality(Artifacts(files)) = 3
               /\ n <= 2 => dlBefore[c] \subseteq files

\* C4 (amended): provided also that the directory listing succeeds and that
\* no other file named OrionTV_v....apk carries OrionTV_v<digits>.apk inside
\* its name, a call whose first attempt succeeds on a directory with n > 2
\* artifact files leaves exactly the 2 newest of them and the new file; and
\* when the directory holds at most 2 files named OrionTV_v....apk (whatever
\* stands between the prefix and the suffix), the cleanup deletes nothing.
C4_Retention ==
    \A c \in Callers :
        (dlPc[c] = "returned" /\ dlAttempts[c] = 1 /\ NoDeletionFailed(c) /\ ~LsFailed(c)) =>
            LET n == Cardinality(Artifacts(dlBefore[c]))
            IN /\ (n > 2 /\ Stamped(dlBefore[c]) = {}) =>
                    /\ Artifacts(files) = Newest(dlBefore[c], 2) \cup {dlFile[c]}
                    /\ Cardinality(Artifacts(files)) = 3
                    /\ Cardinality(Artifacts(dlBefore[c]) \ files) = n - 2
               /\ Cardinality(ApkShaped(dlBefore[c])) <= 2 =>
                    /\ Unlinks(c) = <<>>
                    /\ files = dlBefore[c] \cup {dlFile[c]}

\* Five artifact files before the call, three after it.
C4_Witness ==
    /\ dlPc[1] = "returned" /\ dlAttempts[1] = 1
    /\ NoDeletionFailed(1) /\ ~LsFailed(1)
    /\ Cardinality(Artifacts(dlBefore[1])) = 5
    /\ Len(Unlinks(1)) >= 3
    /\ Cardinality(Artifacts(files)) = 3

\* C5 as stated: while no deletion has failed, at most 2 artifact files that
\* finished attempts produced are on disk.
C5_AsStated ==
    ~cleanFailed => Cardinality(FinishedArtifacts) <= 2

\* C5 (amended): once the cleanup pass of a call has run with its listing and
\* deletions succeeding, at most 2 artifact files from before that call are on
\* disk; each attempt of the call adds at most one file, so that at most 5
\* artifact files are on disk at any time while no cleanup operation has
\* failed, and at most 3 after a call that succeeded at its first attempt.
C5_AtMostTwoOlder ==
    /\ \A c \in Callers :
          (PastCleanup(c) /\ NoDeletionFailed(c) /\ ~LsFailed(c)) =>
              /\ Cardinality(ApkShaped(files \cap dlBefore[c])) <= 2
              /\ Cardinality(ApkShaped(files)) <= 2 + dlAttempts[c]
              /\ Artifacts(files \cap dlBefore[c]) \subseteq Newest(dlBefore[c], 2)
    /\ ~cleanFailed => Cardinality(Artifacts(files)) <= 5

\* A second call in a row, every cleanup having succeeded, that found the 3
\* artifact files of the first call, kept 2 and wrote 3 more.
C5_Witness ==
    /\ ~cleanFailed
    /\ PastCleanup(1)
    /\ calls = 2
    /\ Cardinality(Artifacts(dlBefore[1])) = 3
    /\ Cardinality(Artifacts(files \cap dlBefore[1])) = 2
    /\ Cardinality(Artifacts(files)) = 5

\* C6: a failing ls or unlink never aborts the download.  After a successful
\* listing unlink is called on every file of filesToDelete, in order, whether
\* or not earlier unlinks failed; when the cleanup is over the call stands at
\* the head of the retry loop with the first attempt ready to start; a call
\* never ends before it has made an attempt; the only error it throws is the
\* download error and the only notification it shows is the download one.
C6_CleanupNeverAborts ==
    \A c \in Callers :
        /\ dlPc[c] = "unlink" =>
             dlPlan[c] = [i \in 1..Len(Unlinks(c)) |-> Unlinks(c)[i].file] \o dlToDelete[c]
        /\ PastCleanup(c) =>
             /\ dlPlan[c] = [i \in 1..Len(Unlinks(c)) |-> Unlinks(c)[i].file]
             /\ dlAttempts[c] = 0 => (dlPc[c] = "loop" /\ ENABLED DlLoopEnter(c))
        /\ dlPc[c] \in {"returned", "thrown"} => dlAttempts[c] >= 1
        /\ dlPc[c] = "thrown" =>
             /\ dlResult[c].error.type = "download"
             /\ dlResult[c].error.cause.type \in {"network", "timeout"}
        /\ dlToasts[c] > 0 => (dlRetries[c] = 3 /\ toasts[Len(toasts)] = DownloadToast)

\* A cleanup whose first unlink failed and which went on to the next file, in
\* a call that then downloaded the file.
C6_Witness ==
    /\ dlPc[1] = "returned"
    /\ Len(Unlinks(1)) >= 2
    /\ ~Unlinks(1)[1].ok
    /\ Unlinks(1)[2].ok

(***************************************************************************)
(* Vocabulary of the claims about installApk.                              *)
(***************************************************************************)
InFailing == inPc \in {"catch", "rethrow", "thrown"}

InCalled(what) == \E i \in 1..Len(inLog) : inLog[i] = what

\* C7: installApk on a path where no file exists raises the 'install file
\* missing' error after the one existence query: it asks for no permission,
\* opens no settings, calls no installer and does not try again.
C7_MissingFile ==
    (inPc # "idle" /\ inPc # "exists" /\ inPath \notin files) =>
        /\ inExists \in {"no", "rejected"}
        /\ inExists = "no" =>
             /\ InFailing
             /\ inError.type = "missing"
             /\ inPc = "thrown" => inResult = [kind |-> "thrown", error |-> inError]
        /\ inLog = <<"exists">>
        /\ inPerm = "none"
        /\ installerCalls = <<>> /\ installation = "none"

C7_Witness ==
    /\ inPc = "thrown"
    /\ inPath \notin files
    /\ inExists = "no"
    /\ inResult.error.type = "missing"

\* C8: on an existing file, when the permission query answers false,
\* installApk opens the OS settings, raises the permission error and never
\* calls the installer.
C8_PermissionDenied ==
    (inExists = "yes" /\ inPerm = "false") =>
        /\ InFailing
        /\ inLog = <<"exists", "canRequest", "openSettings">>
        /\ inError.type = "permission"
        /\ inPc = "thrown" => inResult = [kind |-> "thrown", error |-> inError]
        /\ installerCalls = <<>> /\ installation = "none"

C8_Witness ==
    /\ inPc = "thrown"
    /\ inPath \in files
    /\ inPerm = "false"
    /\ InCalled("openSettings")
    /\ inResult.error.type = "permission"

\* C9 as stated: on an existing file, when the permission query answers true
\* or gives no answer, installApk calls the installer exactly once with the
\* file path, opens no settings, shows no notification and returns without
\* waiting for the installation to finish.
C9_AsStated ==
    (inExists = "yes" /\ inPerm \in {"true", "undefined", "unavailable"}) =>
        /\ ~InCalled("openSettings")
        /\ inPc = "install" => installerCalls = <<>>
        /\ inPc # "install" =>
             /\ installerCalls = <<inPath>>
             /\ inPc \in {"called", "returned"}
             /\ inToasts = 0 /\ toasts = <<>>
             /\ inPc = "returned" => inResult = [kind |-> "returned"]

\* C9: on an existing file, when the permission query answers true or gives
\* no answer (the method is missing, or it resolves to no value), installApk
\* calls the installer exactly once with the file path and opens no settings.
\* When that call does not throw, installApk shows no notification and
\* returns without waiting for the installation to finish; when it throws,
\* installApk shows one notification with the error's message and rethrows
\* the error.
C9_InstallerHandoff ==
    (inExists = "yes" /\ inPerm \in {"true", "undefined", "unavailable"}) =>
        /\ ~InCalled("openSettings")
        /\ inPc = "install" => installerCalls = <<>>
        /\ inPc # "install" =>
             /\ installerCalls = <<inPath>>
             /\ inLog = (IF inPerm = "unavailable" THEN <<"exists", "install">>
                                                   ELSE <<"exists", "canRequest", "install">>)
             /\ inError = NoValue =>
                  /\ inPc \in {"called", "returned"}
                  /\ inToasts = 0 /\ toasts = <<>>
                  /\ installation # "none"
                  /\ inPc = "called" => ENABLED InReturn
                  /\ inPc = "returned" => inResult = [kind |-> "returned"]
             /\ inError # NoValue =>
                  /\ inError.type = "installer"
                  /\ InFailing
                  /\ installation = "none"
                  /\ inPc = "catch" => inToasts = 0 /\ toasts = <<>>
                  /\ inPc \in {"rethrow", "thrown"} =>
                       inToasts = 1 /\ toasts = <<InstallToast(inError)>>
                  /\ inPc = "thrown" => inResult = [kind |-> "thrown", error |-> inError]

\* The call has returned while the installation is still going on.
C9_Witness ==
    /\ inPc = "returned"
    /\ inPerm = "undefined"
    /\ installerCalls = <<inPath>>
    /\ installation = "pending"

\* C10: every error raised inside installApk (file missing, permission denied,
\* a rejected existence or permission query, an installer call that throws)
\* leads to exactly one notification carrying the error's message, shown
\* before the same error is rethrown; installApk returns normally only when
\* no error was raised.
C10_EveryErrorNotified ==
    /\ inError # NoValue <=> InFailing
    /\ inExists = "no" => inError.type = "missing"
    /\ inExists = "rejected" => inError.type = "fs"
    /\ inPerm = "rejected" => inError.type = "query"
    /\ inPerm = "false" => inError.type = "permission"
    /\ inPc = "catch" => inToasts = 0 /\ inResult = NoValue
    /\ inPc = "rethrow" =>
         /\ inToasts = 1 /\ Len(toasts) = 1
         /\ toasts[1] = [type |-> "error", text1 |-> "install failed", text2 |-> inError.message]
         /\ inResult = NoValue
    /\ inPc = "thrown" =>
         /\ inToasts = 1 /\ Len(toasts) = 1
         /\ toasts[1] = [type |-> "error", text1 |-> "install failed", text2 |-> inError.message]
         /\ inResult = [kind |-> "thrown", error |-> inError]
    /\ inPc = "returned" =>
         /\ inResult = [kind |-> "returned"]
         /\ inToasts = 0
         /\ installerCalls = <<inPath>>

\* The installer call threw: one notification with its message, then the rethrow.
C10_Witness ==
    /\ inPc = "thrown"
    /\ inResult.error.type = "installer"
    /\ toasts = <<[type |-> "error", text1 |-> "install failed", text2 |-> "installer failed"]>>

(***************************************************************************)
(* Claims about compareVersions and isUpdateAvailable.                     *)
(***************************************************************************)
\* The arguments of the last compareVersions call, as strings and as the
\* numbers the strings were written from.
VcFirst == IF vcCall.order = "remote-current" THEN vRemote ELSE currentVersion
VcSecond == IF vcCall.order = "remote-current" THEN currentVersion ELSE vRemote
VcFirstParts == IF vcCall.order = "remote-current" THEN remoteParts ELSE currentParts
VcSecondParts == IF vcCall.order = "remote-current" THEN currentParts ELSE remoteParts

\* p padded with trailing zeros to length n.
PadZeros(p, n) == [i \in 1..n |-> IF i <= Len(p) THEN p[i] ELSE 0]

\* The sign of the lexicographic comparison of two sequences of naturals
\* after padding the shorter one with trailing zeros.
LexSign(p, q) ==
    LET n == IF Len(p) > Len(q) THEN Len(p) ELSE Len(q)
        pp == PadZeros(p, n)
        qq == PadZeros(q, n)
        differ == {i \in 1..n : pp[i] # qq[i]}
    IN  IF differ = {} THEN 0
        ELSE LET first == CHOOSE i \in differ : \A j \in differ : i <= j
             IN  IF pp[first] > qq[first] THEN 1 ELSE -1

\* C11: for every pair of dotted-numeric version strings a and b, of equal
\* or different numbers of components, compareVersions(a, b) is the negation
\* of compareVersions(b, a).
C11_Antisymmetry ==
    vcCall.kind = "compareVersions" =>
        vcCall.result = 0 - compareVersions(VcSecond, VcFirst)

\* compareVersions was called on a shorter and a longer string that agree on
\* the shorter one's components, and found the shorter one smaller.
C11_Witness ==
    /\ vcCall.kind = "compareVersions"
    /\ Len(VcFirstParts) < Len(VcSecondParts)
    /\ \A i \in 1..Len(VcFirstParts) : VcFirstParts[i] = VcSecondParts[i]
    /\ vcCall.result = -1

\* C12: compareVersions(a, b) is the sign of the lexicographic comparison of
\* the component sequences of a and b read as non-negative integers, the
\* shorter one padded with trailing zeros: "1.2" against "1.2.0" gives 0 and
\* "1.10.0" against "1.9.9" gives 1.
C12_LexicographicSign ==
    vcCall.kind = "compareVersions" =>
        /\ vcCall.result = LexSign(VcFirstParts, VcSecondParts)
        /\ (VcFirstParts = <<1, 10, 0>> /\ VcSecondParts = <<1, 9, 9>>) => vcCall.result = 1
        /\ (VcFirstParts = <<1, 9>> /\ VcSecondParts = <<1, 9, 0>>) => vcCall.result = 0

\* compareVersions("1.10.0", "1.9.9") returned 1.
C12_Witness ==
    /\ vcCall.kind = "compareVersions"
    /\ VcFirst = <<"1", ".", "1", "0", ".", "0">>
    /\ VcSecond = <<"1", ".", "9", ".", "9">>
    /\ vcCall.result = 1

\* C15: isUpdateAvailable(v) is true exactly when
\* compareVersions(v, currentVersion) > 0; it is false when v equals the
\* current version, also up to trailing zero components, or is lower.
C15_UpdateAvailable ==
    vcCall.kind = "isUpdateAvailable" =>
        /\ vcCall.result = (compareVersions(vRemote, currentVersion) > 0)
        /\ LexSign(remoteParts, currentParts) <= 0 => vcCall.result = FALSE
        /\ LexSign(remoteParts, currentParts) > 0 => vcCall.result = TRUE

\* isUpdateAvailable("1.9.0") answered false on a build of version "1.9".
C15_Witness ==
    /\ vcCall.kind = "isUpdateAvailable"
    /\ vRemote = <<"1", ".", "9", ".", "0">>
    /\ currentVersion = <<"1", ".", "9">>
    /\ vcCall.result = FALSE

(***************************************************************************)
(* Claims about the retry state machine.                                   *)
(***************************************************************************)
\* The state of the diagram a checkVersion call is in.  An attempt lasts from
\* the loop head to the end of its catch block.
CvPhase ==
    CASE cvPc = "idle" -> "Idle"
      [] cvPc \in {"loop", "fetch", "response", "catch"} -> "Attempting"
      [] cvPc = "backoff" -> "Retrying"
      [] cvPc = "returned" -> "Success"
      [] cvPc \in {"rethrow", "thrown"} -> "Failed"

\* The same for a downloadApk call; its cleanup pass comes before the first
\* attempt.
DlPhase(c) ==
    CASE dlPc[c] = "idle" -> "Idle"
      [] dlPc[c] \in {"ls", "unlink"} -> "Preparing"
      [] dlPc[c] \in {"loop", "task", "catch"} -> "Attempting"
      [] dlPc[c] = "backoff" -> "Retrying"
      [] dlPc[c] = "returned" -> "Success"
      [] dlPc[c] = "rethrow" \/ dlPc[c] = "thrown" -> "Failed"

\* The edges of the diagram.
PhaseEdges ==
    {<<"Idle", "Attempting">>, <<"Idle", "Preparing">>, <<"Preparing", "Attempting">>,
     <<"Attempting", "Success">>, <<"Attempting", "Retrying">>,
     <<"Attempting", "Failed">>, <<"Retrying", "Attempting">>}

\* One step of a call along the diagram: from phase p with `before` failed
\* attempts to phase q with `after` failed attempts and `started` attempts
\* started.
PhaseStepOk(p, q, before, after, started) ==
    /\ p # q => <<p, q>> \in PhaseEdges
    /\ (p # q /\ q = "Retrying") => after = before + 1 /\ after < 3
    /\ (p # q /\ q = "Failed") => after = 3 /\ before = 2 /\ started = 3
    /\ (p = "Retrying" /\ q = "Attempting") => started = after
    /\ p \in {"Success", "Failed"} => q = p

CvPhaseStep ==
    PhaseStepOk(CvPhase, CvPhase', cvRetries, cvRetries', CvAttempts')

DlPhaseStep ==
    PhaseStepOk(DlPhase(1), DlPhase(1)', dlRetries[1], dlRetries'[1], dlAttempts'[1])

\* C13: a checkVersion or downloadApk call whose attempts all settle moves
\* along Idle -> Attempting -> {Success | Retrying -> Attempting | Failed}:
\* it ends in exactly one of Success (a value returned) and Failed (an error
\* raised), Retrying is entered only after a failed attempt numbered below 3
\* and is followed by a new attempt (Retrying has no other way out and the
\* call ends), and after the third failed attempt the call fails without
\* another delay or attempt.
C13_RetryStateMachine ==
    /\ [][CvPhaseStep /\ DlPhaseStep]_vars
    /\ [](cvPc = "returned" <=> cvResult.kind = "returned")
    /\ [](cvPc = "thrown" <=> cvResult.kind = "thrown")
    /\ [](dlPc[1] = "returned" <=> dlResult[1].kind = "returned")
    /\ [](dlPc[1] = "thrown" <=> dlResult[1].kind = "thrown")
    /\ (cvPc # "idle") ~> (cvPc \in {"returned", "thrown"})
    /\ (dlPc[1] # "idle") ~> (dlPc[1] \in {"returned", "thrown"})

\* checkVersion returned at its third attempt, after two delays, and
\* downloadApk failed at its third attempt.
C13_Witness ==
    /\ cvPc = "returned"
    /\ Len(cvOutcomes) = 3
    /\ cvWaits = <<2000, 4000>>
    /\ dlPc[1] = "thrown"
    /\ dlAttempts[1] = 3
    /\ dlWaits[1] = <<3000, 6000>>

(***************************************************************************)
(* Claims about overlapping downloadApk calls.                             *)
(***************************************************************************)
\* The transfers call c has started, counted from its own failures.
OwnAttempts(c) ==
    dlRetries[c] + (IF dlPc[c] \in {"task", "catch", "returned"} THEN 1 ELSE 0)

\* The cleanup pass of call c as its log shows it: one ls, then, if ls
\* succeeded, one unlink for every file of its own plan, failed or not.
OwnCleanupPass(c) ==
    /\ Len(dlCleanLog[c]) >= 1
    /\ dlCleanLog[c][1].op = "ls"
    /\ IF dlCleanLog[c][1].ok
         THEN [i \in 1..Len(Unlinks(c)) |-> Unlinks(c)[i].file] = dlPlan[c]
         ELSE Unlinks(c) = <<>> /\ dlPlan[c] = <<>>

\* A call that has not ended can take a step of its own, whatever the other
\* call is doing: the step of ConcurrentStep that continues it is enabled.
OwnStepEnabled(c) ==
    CASE dlPc[c] = "ls" -> ENABLED CleanLsResolves(c)
      [] dlPc[c] = "unlink" -> ENABLED CleanUnlink(c)
      [] dlPc[c] = "loop" -> ENABLED DlLoopEnter(c)
      [] dlPc[c] = "task" -> ENABLED DlTaskResolves(c)
      [] dlPc[c] = "catch" -> ENABLED DlCatch(c)
      [] dlPc[c] = "backoff" -> ENABLED DlBackoff(c)
      [] dlPc[c] = "rethrow" -> ENABLED DlRethrow(c)
      [] OTHER -> dlPc[c] \in {"idle", "returned", "thrown"}

\* C14: two downloadApk calls that overlap proceed independently under every
\* interleaving: each runs its own cleanup pass and its own retry loop with
\* its own attempt counter, an unlink that fails (the other call may have
\* removed the file already) is swallowed, no call is ever blocked by the
\* other, and each call ends with its own result, a path or an error.
C14_IndependentCalls ==
    \A c \in Callers :
        /\ dlAttempts[c] <= 3
        /\ dlAttempts[c] = OwnAttempts(c)
        /\ dlWaits[c] = [i \in 1..Len(dlWaits[c]) |-> 3000 * i]
        /\ PastCleanup(c) => OwnCleanupPass(c)
        /\ OwnStepEnabled(c)
        /\ dlPc[c] = "returned" =>
             /\ dlResult[c] = [kind |-> "returned", path |-> dlFile[c]]
             /\ dlToasts[c] = 0
        /\ dlPc[c] = "thrown" =>
             /\ dlRetries[c] = 3
             /\ dlResult[c].kind = "thrown"
             /\ dlResult[c].error.type = "download"
             /\ dlResult[c].error.cause = dlError[c]
             /\ dlError[c].attempt = 3
             /\ dlToasts[c] = 1

\* Both calls planned to delete the same file; the first call removed it, the
\* unlink of the second call failed, and the second call went on to fail
\* three times while the first returned.
C14_Witness ==
    /\ dlPc[1] = "returned"
    /\ dlPc[2] = "thrown"
    /\ dlPlan[1] = dlPlan[2]
    /\ Len(dlPlan[1]) = 1
    /\ dlPlan[1][1] \notin files
    /\ Unlinks(1)[1].ok
    /\ ~Unlinks(2)[1].ok

(***************************************************************************)
(* Claims about the files the cleanup touches.                             *)
(***************************************************************************)
\* The files of S that the cleanup has removed.
Removed(c) == dlBefore[c] \ files

\* C16 as stated: the cleanup deletes only files named OrionTV_v<digits>.apk;
\* every other file, also one named OrionTV_v....apk with something other
\* than digits in between, stays and does not count toward the limit of 2.
C16_AsStated ==
    \A c \in Callers :
        /\ \A i \in 1..Len(dlPlan[c]) : IsArtifact(dlPlan[c][i])
        /\ \A f \in Removed(c) : IsArtifact(f)
        /\ (PastCleanup(c) /\ Cardinality(Artifacts(dlBefore[c])) <= 2) => Unlinks(c) = <<>>

\* C16: the cleanup deletes only files whose name starts with OrionTV_v and
\* ends with .apk; every other file stays and does not count toward the
\* limit of 2.  A file with that prefix and suffix but no digits-only middle
\* counts toward the limit and can be deleted.
C16_OnlyApkShaped ==
    \A c \in Callers :
        /\ \A i \in 1..Len(dlPlan[c]) : dlPlan[c][i] \in ApkShaped(dlBefore[c])
        /\ \A f \in Removed(c) : f \in ApkShaped(dlBefore[c])
        /\ (PastCleanup(c) /\ Cardinality(ApkShaped(dlBefore[c])) <= 2) => Unlinks(c) = <<>>
        /\ (PastCleanup(c) /\ ~LsFailed(c) /\ Cardinality(ApkShaped(dlBefore[c])) > 2) =>
              Len(Unlinks(c)) = Cardinality(ApkShaped(dlBefore[c])) - 2

\* The directory held one artifact file, OrionTV_v1.2.0.apk, OrionTV_vbeta.apk
\* and a file that is no APK; the two names without a digits-only middle
\* counted toward the limit, the cleanup removed one of them and nothing else.
C16_Witness ==
    /\ PastCleanup(1)
    /\ Cardinality(Artifacts(dlBefore[1])) = 1
    /\ {LegacyName, BetaName, OtherName} \subseteq dlBefore[1]
    /\ Removed(1) = {BetaName}
    /\ Len(Unlinks(1)) = 1
    /\ {LegacyName, OtherName} \subseteq files

(***************************************************************************)
(* Claims about the value checkVersion returns.                            *)
(***************************************************************************)
\* C17: whenever checkVersion returns, the VersionInfo carries the version
\* string of the manifest's version field and the download URL derived from
\* it; a response whose body parses but has no version field is never
\* returned as a result: it is a failed attempt.
C17_ReturnsManifestVersion ==
    /\ cvPc = "returned" =>
          LET last == cvOutcomes[Len(cvOutcomes)]
          IN  /\ last.kind = "response" /\ last.ok /\ last.body.kind = "manifest"
              /\ cvResult.value.version \in Versions
              /\ cvResult.value.version = last.body.version
              /\ cvResult.value.downloadUrl = getDownloadUrl(last.body.version)
    /\ \A i \in 1..Len(cvOutcomes) :
          (cvOutcomes[i].kind = "response" /\ cvOutcomes[i].ok
              /\ cvOutcomes[i].body.kind = "noVersion") =>
                 \/ cvPc \in {"response", "catch", "backoff", "rethrow", "thrown"}
                 \/ i < Len(cvOutcomes)

(***************************************************************************)
(* Claims about the login flow.                                            *)
(***************************************************************************)
LoginSteps == <<"login", "checkLoginStatus", "refreshPlayRecords", "save">>

\* The run is between setIsLoading(true) and the end of its finally block.
LgInFlight(r) == lgPc[r] \in {"login", "checkLoginStatus", "refreshPlayRecords", "save"}

\* What a run that passed the validation has logged after its trigger.
LgBody(r) == SubSeq(lgLog[r], 2, Len(lgLog[r]))

\* The first k collaborator calls, in order, after setIsLoading(true).
LgCalls(k) == <<"setLoading">> \o SubSeq(LoginSteps, 1, k)

LgFailureToasts == SelectSeq(toasts, LAMBDA t : t.type = "error" /\ t.text1 = "login failed")

LgRunOk(r) ==
    /\ lgPc[r] = "idle" => lgLog[r] = <<>> /\ lgArgs[r] = NoValue
    /\ lgPc[r] = "invalid" =>
          /\ LgBody(r) = <<"toastInvalid">>
          /\ lgArgs[r] = NoValue
    /\ LgInFlight(r) =>
          \E k \in 1..4 : lgPc[r] = LoginSteps[k] /\ LgBody(r) = LgCalls(k)
    /\ lgPc[r] = "failed" =>
          \E k \in 1..4 : LgBody(r) = LgCalls(k) \o <<"toastFailure", "clearLoading">>
    /\ lgPc[r] = "done" =>
          /\ LgBody(r) = LgCalls(4) \o <<"toastSuccess", "hideLoginModal", "alert", "clearLoading">>
          /\ ~isLoginModalVisible
    /\ lgArgs[r] # NoValue =>
          /\ lgArgs[r].password # ""
          /\ storageType # "localstorage" => lgArgs[r].username # ""
          /\ storageType = "localstorage" => lgArgs[r].username = "undefined"

\* A run that ends leaves the loading flag false.
LgEndsNotLoading ==
    \A r \in LoginRuns :
        (LgInFlight(r) /\ lgPc'[r] \in {"failed", "done"}) => ~isLoading'

\* C18: handleLogin calls api.login, checkLoginStatus, refreshPlayRecords and
\* the saving of the credentials in this order and then hides the modal; when
\* one of the calls fails an error notification is shown and no later step
\* runs, so the credentials are saved and the modal is hidden by the flow only
\* when all calls before have succeeded; however the flow ends, the loading
\* flag is false then.  With an empty password, or an empty username on a
\* server that is not in localstorage mode, api.login is not called.
C18_LoginFlow ==
    /\ [](\A r \in LoginRuns : LgRunOk(r))
    /\ [](Len(LgFailureToasts) = Cardinality({r \in LoginRuns : lgPc[r] = "failed"}))
    /\ [][savedCredentials' # savedCredentials =>
             \E r \in LoginRuns : /\ lgPc[r] = "save" /\ lgPc'[r] = "done"
                                   /\ savedCredentials' = lgArgs[r].credentials]_vars
    /\ [][LgEndsNotLoading]_vars

\* A login whose play-record refresh failed: the failure was notified,
\* nothing was saved, the modal is still shown and the flag is false.
C18_Witness ==
    /\ lgPc[1] = "failed"
    /\ LgBody(1) = LgCalls(3) \o <<"toastFailure", "clearLoading">>
    /\ toasts = <<FailureToast([isError |-> TRUE, message |-> "401"])>>
    /\ savedCredentials = NoValue
    /\ isLoginModalVisible
    /\ ~isLoading

\* C20: at most one login is being processed at any time: while a handleLogin
\* run is between setting the loading flag and its completion, neither the
\* login button nor the submit key of the password input starts another run.
C20_SingleLoginInFlight ==
    Cardinality({r \in LoginRuns : LgInFlight(r)}) <= 1

(***************************************************************************)
(* Claims about a cleanup that runs while another call is downloading.     *)
(***************************************************************************)
\* Call c is in an attempt whose file is on disk.
Writing(c) == dlPc[c] = "task" /\ dlFile[c] \in files

\* C19: the cleanup pass of one downloadApk call never deletes an artifact
\* file that an attempt of another call is writing: a file in progress stays
\* on disk until its own attempt has finished.
C19_InProgressFileSurvives ==
    [][\A c \in Callers : (Writing(c) /\ dlPc'[c] = "task") => dlFile[c] \in files']_vars

(***************************************************************************)
(* Claims about useApiConfig.                                              *)
(***************************************************************************)
\* Every validateConfig run that was started has settled.
AllSettled == \A i \in 1..Len(validations) : ~Pending(i)

\* The run started last was started for the base URL the store holds now.
LatestIsCurrent ==
    /\ validations # <<>>
    /\ validations[Len(validations)].url = apiBaseUrl

\* C21: once every validation that was started has settled, in whatever
\* order, the state shows the outcome (isValid, error) of the validation that
\* was started for the most recent base URL: the result of a validation
\* started for an earlier base URL never replaces a newer result.
C21_LatestValidationWins ==
    (AllSettled /\ LatestIsCurrent /\ acLastWrite # 0) =>
        Shown(validationState) = validations[Len(validations)].outcome

====
